---------------------------- MODULE Spec2Model ----------------------------
(***************************************************************************)
(* De-cipher: the four file codecs of src/scripts (AES-CBC, DES-ECB,       *)
(* Vigenere, Playfair) as a state machine over a small file system.        *)
(*                                                                         *)
(* A file is a record [exists, data]; data is a sequence of integers:      *)
(* bytes for files opened in binary mode, code points for files opened in  *)
(* text mode (the files of the model are valid UTF-8).  Characters are     *)
(* code points throughout (65 is "A").  A call either returns or raises;   *)
(* a result is a record whose err field is "none" or the failure's name.   *)
(***************************************************************************)
EXTENDS Integers, Sequences, FiniteSets, TLC

VARIABLES fs, last

vars == <<fs, last>>

(***************************************************************************)
(* Bounds of the model.                                                    *)
(***************************************************************************)
MaxMsgLen == 18
NumIVs == 2
MaxKeyChars == 64

(***************************************************************************)
(* Files and results.                                                      *)
(***************************************************************************)
Paths == {"key", "table", "vkey", "board", "in", "enc", "dec"}

Missing == [exists |-> FALSE, data |-> <<>>]

File(d) == [exists |-> TRUE, data |-> d]

isfile(files, path) == files[path].exists

Ok(v) == [err |-> "none", val |-> v]

Raise(e) == [err |-> e, val |-> <<>>]

\* The outcome of a file-level call: the failure (or "none") and the file
\* system the call leaves behind.
Returned(files) == [err |-> "none", files |-> files]

Raised(e, files) == [err |-> e, files |-> files]

\* An outcome together with the paths the call went to, in order.
Opened(r, paths) == [err |-> r.err, files |-> r.files, opened |-> paths]

Min(a, b) == IF a < b THEN a ELSE b

Max(a, b) == IF a > b THEN a ELSE b

\* Python slices s[:n] and s[n:] for 0 <= n.
Take(s, n) == SubSeq(s, 1, Min(n, Len(s)))

Drop(s, n) == SubSeq(s, Min(n, Len(s)) + 1, Len(s))

Repeat(x, n) == [i \in 1..n |-> x]

ToSet(s) == {s[i] : i \in 1..Len(s)}

(***************************************************************************)
(* Text-mode reading: universal newlines turn "\r\n" and "\r" into "\n".   *)
(***************************************************************************)
\* A line feed that follows a carriage return is dropped and every carriage
\* return becomes a line feed.
universal_newlines(s) ==
    LET kept == SelectSeq([i \in 1..Len(s) |-> i],
                          LAMBDA i : ~(s[i] = 10 /\ i > 1 /\ s[i - 1] = 13))
    IN  [k \in 1..Len(kept) |-> IF s[kept[k]] = 13 THEN 10 ELSE s[kept[k]]]

read_text(files, path) == universal_newlines(files[path].data)

\* str.isspace() on the code points the model uses.
Whitespace == {9, 10, 11, 12, 13, 28, 29, 30, 31, 32, 133, 160}

RECURSIVE lstrip(_)
lstrip(s) ==
    IF s # <<>> /\ s[1] \in Whitespace THEN lstrip(Drop(s, 1)) ELSE s

RECURSIVE rstrip(_)
rstrip(s) ==
    IF s # <<>> /\ s[Len(s)] \in Whitespace THEN rstrip(Take(s, Len(s) - 1)) ELSE s

strip(s) == rstrip(lstrip(s))

(***************************************************************************)
(* bytes.fromhex: ASCII whitespace is skipped between bytes, every byte is *)
(* exactly two hex digits; anything else raises ValueError.                *)
(***************************************************************************)
AsciiSpace == {9, 10, 11, 12, 13, 32}

DigitValue(c) ==
    IF c \in 48..57 THEN c - 48
    ELSE IF c \in 97..102 THEN c - 87
    ELSE IF c \in 65..70 THEN c - 55
    ELSE 16

RECURSIVE fromhex(_)
fromhex(s) ==
    IF s = <<>> THEN Ok(<<>>)
    ELSE IF s[1] \in AsciiSpace THEN fromhex(Drop(s, 1))
    ELSE IF Len(s) < 2 \/ DigitValue(s[1]) >= 16 \/ DigitValue(s[2]) >= 16
         THEN Raise("ValueError")
    ELSE LET rest == fromhex(Drop(s, 2))
         IN  IF rest.err # "none" THEN rest
             ELSE Ok(<<16 * DigitValue(s[1]) + DigitValue(s[2])>> \o rest.val)

(***************************************************************************)
(* str.encode("utf-8").                                                    *)
(***************************************************************************)
utf8_char(c) ==
    IF c < 128 THEN <<c>>
    ELSE IF c < 2048 THEN <<192 + (c \div 64), 128 + (c % 64)>>
    ELSE IF c < 65536
         THEN <<224 + (c \div 4096), 128 + ((c \div 64) % 64), 128 + (c % 64)>>
    ELSE <<240 + (c \div 262144), 128 + ((c \div 4096) % 64),
           128 + ((c \div 64) % 64), 128 + (c % 64)>>

RECURSIVE encode_utf8(_)
encode_utf8(s) ==
    IF s = <<>> THEN <<>> ELSE utf8_char(s[1]) \o encode_utf8(Drop(s, 1))

(***************************************************************************)
(* Key loading (aes.py, des.py).                                           *)
(***************************************************************************)
\* Mutant: the hex decoding is never tried.
key_bytes_utf8_only(content) == encode_utf8(content)

\* try: bytes.fromhex(content) except ValueError: content.encode("utf-8")
key_bytes_of(content) ==
    LET h == fromhex(content)
    IN  IF h.err = "none" THEN h.val ELSE encode_utf8(content)

\* Mutant: AES-192 keys are refused.
aes_key_lengths_without_192 == {16, 32}

aes_key_lengths == {16, 24, 32}

des_key_length == 8

aes_read_key_file(files, key_path) ==
    IF ~isfile(files, key_path) THEN Raise("KeyNotFound")
    ELSE LET content == strip(read_text(files, key_path))
             key == key_bytes_of(content)
         IN  IF Len(key) \notin aes_key_lengths
             THEN Raise("InvalidKeyLength")
             ELSE Ok(key)

des_read_key_file(files, key_path) ==
    IF ~isfile(files, key_path) THEN Raise("KeyNotFound")
    ELSE LET content == strip(read_text(files, key_path))
             key == key_bytes_of(content)
         IN  IF Len(key) # des_key_length
             THEN Raise("InvalidKeyLength")
             ELSE Ok(key)


(***************************************************************************)
(* The block cipher primitive (Crypto.Cipher, not part of the repository): *)
(* a keyed permutation of the blocks.  The model's permutation rotates the *)
(* block and adds the key bytes; decrypt_block is its inverse.             *)
(***************************************************************************)
AES_block_size == 16

DES_block_size == 8

RECURSIVE xor(_, _)
xor(a, b) ==
    IF a = 0 THEN b
    ELSE IF b = 0 THEN a
    ELSE ((a + b) % 2) + 2 * xor(a \div 2, b \div 2)

key_byte(key, i) == key[((i - 1) % Len(key)) + 1]

encrypt_block(key, blk) ==
    [i \in 1..Len(blk) |->
        (blk[(i % Len(blk)) + 1] + key_byte(key, i) + i) % 256]

decrypt_block(key, blk) ==
    [j \in 1..Len(blk) |->
        LET i == ((j - 2) % Len(blk)) + 1
        IN  (blk[i] - key_byte(key, i) - i) % 256]

xor_block(a, b) == [i \in 1..Len(a) |-> xor(a[i], b[i])]

\* AES.new(key, MODE_CBC, iv).encrypt(data), len(data) a multiple of 16.
RECURSIVE cbc_encrypt(_, _, _)
cbc_encrypt(key, iv, data) ==
    IF data = <<>> THEN <<>>
    ELSE LET c == encrypt_block(key, xor_block(Take(data, AES_block_size), iv))
         IN  c \o cbc_encrypt(key, c, Drop(data, AES_block_size))

RECURSIVE cbc_decrypt(_, _, _)
cbc_decrypt(key, iv, data) ==
    IF data = <<>> THEN <<>>
    ELSE LET c == Take(data, AES_block_size)
         IN  xor_block(decrypt_block(key, c), iv)
                 \o cbc_decrypt(key, c, Drop(data, AES_block_size))

\* DES.new(key, MODE_ECB).encrypt(data), len(data) a multiple of 8.
RECURSIVE ecb_encrypt(_, _)
ecb_encrypt(key, data) ==
    IF data = <<>> THEN <<>>
    ELSE encrypt_block(key, Take(data, DES_block_size))
             \o ecb_encrypt(key, Drop(data, DES_block_size))

RECURSIVE ecb_decrypt(_, _)
ecb_decrypt(key, data) ==
    IF data = <<>> THEN <<>>
    ELSE decrypt_block(key, Take(data, DES_block_size))
             \o ecb_decrypt(key, Drop(data, DES_block_size))

(***************************************************************************)
(* aes.py: encrypt_file, decrypt_file.                                     *)
(***************************************************************************)
aes_pad_len(data) == AES_block_size - (Len(data) % AES_block_size)

aes_pad(data) == data \o Repeat(aes_pad_len(data), aes_pad_len(data))

\* iv + ciphertext, as written to the output file.
aes_frame(iv, ciphertext) == iv \o ciphertext

aes_encrypt_file(files, input_path, output_path, key, iv) ==
    LET k == aes_read_key_file(files, key)
    IN  IF ~isfile(files, key) THEN Raised("KeyNotFound", files)
        ELSE IF k.err # "none" THEN Raised(k.err, files)
        ELSE IF ~isfile(files, input_path) THEN Raised("InputNotFound", files)
        ELSE LET data == aes_pad(files[input_path].data)
                 ciphertext == cbc_encrypt(k.val, iv, data)
             IN  Returned([files EXCEPT
                     ![output_path] = File(aes_frame(iv, ciphertext))])

\* f_in.read(16); f_in.read()
aes_read_iv(data) == Take(data, 16)

\* Mutant: the IV is decrypted with the rest.
aes_read_whole_input(data) == data

aes_read_ciphertext(data) == Drop(data, 16)

aes_padding_invalid(pad_len) == pad_len < 1 \/ pad_len > AES_block_size

\* Mutant: a full block of padding is left in place.
aes_unpad_keeps_full_block(data, pad_len) ==
    IF pad_len = AES_block_size THEN data ELSE Take(data, Max(Len(data) - pad_len, 0))

\* data[:-pad_len]
aes_unpad(data, pad_len) ==
    IF pad_len = 0 THEN <<>> ELSE Take(data, Max(Len(data) - pad_len, 0))

aes_decrypt_file(files, input_path, output_path, key) ==
    LET k == aes_read_key_file(files, key)
    IN  IF ~isfile(files, key) THEN Raised("KeyNotFound", files)
        ELSE IF k.err # "none" THEN Raised(k.err, files)
        ELSE IF ~isfile(files, input_path) THEN Raised("InputNotFound", files)
        ELSE LET iv == aes_read_iv(files[input_path].data)
                 ciphertext == aes_read_ciphertext(files[input_path].data)
             IN  IF Len(iv) # AES_block_size
                 THEN Raised("IncorrectIVLength", files)
                 ELSE IF Len(ciphertext) % AES_block_size # 0
                 THEN Raised("DataNotAligned", files)
                 ELSE LET data == cbc_decrypt(k.val, iv, ciphertext)
                      IN  IF data = <<>> THEN Raised("IndexError", files)
                          ELSE IF aes_padding_invalid(data[Len(data)])
                          THEN Raised("InvalidPadding", files)
                          ELSE Returned([files EXCEPT ![output_path] =
                                   File(aes_unpad(data, data[Len(data)]))])

(***************************************************************************)
(* des.py: encrypt_file, decrypt_file.                                     *)
(***************************************************************************)
\* Mutant: a block-aligned plaintext gets no padding.
des_pad_len_none_when_aligned(data) ==
    (DES_block_size - (Len(data) % DES_block_size)) % DES_block_size

des_pad_len(data) == DES_block_size - (Len(data) % DES_block_size)

des_pad(data) == data \o Repeat(des_pad_len(data), des_pad_len(data))

des_encrypt_file(files, input_path, output_path, key) ==
    LET k == des_read_key_file(files, key)
    IN  IF ~isfile(files, key) THEN Raised("KeyNotFound", files)
        ELSE IF k.err # "none" THEN Raised(k.err, files)
        ELSE IF ~isfile(files, input_path) THEN Raised("InputNotFound", files)
        ELSE LET data == des_pad(files[input_path].data)
                 ciphertext == ecb_encrypt(k.val, data)
             IN  Returned([files EXCEPT ![output_path] = File(ciphertext)])

\* Mutant: a pad length equal to the block size is refused.
des_padding_invalid_at_block_size(pad_len) == pad_len < 1 \/ pad_len >= DES_block_size

des_padding_invalid(pad_len) == pad_len < 1 \/ pad_len > DES_block_size

\* data[:-pad_len]
des_unpad(data, pad_len) ==
    IF pad_len = 0 THEN <<>> ELSE Take(data, Max(Len(data) - pad_len, 0))

des_decrypt_file(files, input_path, output_path, key) ==
    LET k == des_read_key_file(files, key)
    IN  IF ~isfile(files, key) THEN Raised("KeyNotFound", files)
        ELSE IF k.err # "none" THEN Raised(k.err, files)
        ELSE IF ~isfile(files, input_path) THEN Raised("InputNotFound", files)
        ELSE LET ciphertext == files[input_path].data
             IN  IF Len(ciphertext) % DES_block_size # 0
                 THEN Raised("DataNotAligned", files)
                 ELSE LET data == ecb_decrypt(k.val, ciphertext)
                      IN  IF data = <<>> THEN Raised("IndexError", files)
                          ELSE IF des_padding_invalid(data[Len(data)])
                          THEN Raised("InvalidPadding", files)
                          ELSE Returned([files EXCEPT ![output_path] =
                                   File(des_unpad(data, data[Len(data)]))])

(***************************************************************************)
(* vigenere.py.                                                            *)
(***************************************************************************)
Filter(s, allowed) == SelectSeq(s, LAMBDA c : c \in allowed)

\* Iterating a text file: the lines, each without its line feed.
split_lines(text) ==
    LET ends == SelectSeq([i \in 1..Len(text) |-> i], LAMBDA i : text[i] = 10)
        last_end == IF ends = <<>> THEN 0 ELSE ends[Len(ends)]
        count == Len(ends) + (IF last_end < Len(text) THEN 1 ELSE 0)
    IN  [k \in 1..count |->
            SubSeq(text,
                   IF k = 1 THEN 1 ELSE ends[k - 1] + 1,
                   IF k <= Len(ends) THEN ends[k] - 1 ELSE Len(text))]

\* line.rstrip("\n\r")
RECURSIVE rstrip_newlines(_)
rstrip_newlines(line) ==
    IF line # <<>> /\ line[Len(line)] \in {10, 13}
    THEN rstrip_newlines(Take(line, Len(line) - 1))
    ELSE line

\* [line.rstrip("\n\r") for line in f if line.strip()]
table_lines(text) ==
    LET raw == split_lines(text)
        kept == SelectSeq(raw, LAMBDA line : strip(line) # <<>>)
    IN  [i \in 1..Len(kept) |-> rstrip_newlines(kept[i])]

\* Mutant: the space is not taken as a visible character.
visible_from_33 == 33..126

visible == 32..126

\* Mutant: the first row is not checked for duplicates.
first_row_has_duplicates_unchecked(lines) == FALSE

first_row_has_duplicates(lines) == Cardinality(ToSet(lines[1])) # Len(lines[1])

read_table_from_file(files, path) ==
    IF ~isfile(files, path) THEN Raise("TableNotFound")
    ELSE LET lines == table_lines(read_text(files, path))
         IN  IF lines = <<>> THEN Raise("EmptyTable")
             ELSE IF \E i \in 1..Len(lines) : Len(lines[i]) # Len(lines[1])
             THEN Raise("MalformedTable")
             ELSE IF Len(lines) # Len(lines[1]) THEN Raise("MalformedTable")
             ELSE IF ~(ToSet(lines[1]) \subseteq visible)
             THEN Raise("InvalidCharacters")
             ELSE IF \E i \in 2..Len(lines) : ToSet(lines[i]) # ToSet(lines[1])
             THEN Raise("InconsistentTable")
             ELSE IF first_row_has_duplicates(lines)
             THEN Raise("DuplicateCharacters")
             ELSE Ok(lines)

\* Mutant: the key is upper-cased for a charset of capital letters.
read_key_from_file_upper(files, path, allowed_chars) ==
    IF ~isfile(files, path) THEN Raise("KeyNotFound")
    ELSE LET data == read_text(files, path)
             capitals == [i \in 1..Len(data) |->
                             IF data[i] \in 97..122 THEN data[i] - 32 ELSE data[i]]
             key == Filter(IF allowed_chars \subseteq 65..90 THEN capitals ELSE data,
                           allowed_chars)
         IN  IF key = <<>> THEN Raise("EmptyKey") ELSE Ok(key)

read_key_from_file(files, path, allowed_chars) ==
    IF ~isfile(files, path) THEN Raise("KeyNotFound")
    ELSE LET key == Filter(read_text(files, path), allowed_chars)
         IN  IF key = <<>> THEN Raise("EmptyKey") ELSE Ok(key)

\* mapping = {c: i for i, c in enumerate(charset)}: the last index of c.
mapping_has(charset, c) == c \in ToSet(charset)

mapping_get(charset, c) ==
    CHOOSE i \in 1..Len(charset) :
        charset[i] = c /\ \A j \in 1..Len(charset) : charset[j] = c => j <= i

\* Mutant: the key character picks the column and the text character the row.
encrypt_char_by_column(ch, key_ch, table) ==
    LET charset == table[1]
    IN  IF ~mapping_has(charset, key_ch) \/ ~mapping_has(charset, ch) THEN ch
        ELSE table[mapping_get(charset, ch)][mapping_get(charset, key_ch)]

encrypt_char(ch, key_ch, table) ==
    LET charset == table[1]
    IN  IF ~mapping_has(charset, key_ch) \/ ~mapping_has(charset, ch) THEN ch
        ELSE table[mapping_get(charset, key_ch)][mapping_get(charset, ch)]

\* row_data.find(ch): the first column holding ch, 0 when there is none.
find(row_data, ch) ==
    IF ch \notin ToSet(row_data) THEN 0
    ELSE CHOOSE i \in 1..Len(row_data) :
             row_data[i] = ch /\ \A j \in 1..Len(row_data) : row_data[j] = ch => i <= j

\* Mutant: the column is looked up in the charset, not in the key's row.
decrypt_char_by_charset(ch, key_ch, table) ==
    LET charset == table[1]
    IN  IF ~mapping_has(charset, key_ch) THEN ch
        ELSE LET col == find(charset, ch)
             IN  IF col = 0 THEN ch ELSE table[mapping_get(charset, key_ch)][col]

decrypt_char(ch, key_ch, table) ==
    LET charset == table[1]
    IN  IF ~mapping_has(charset, key_ch) THEN ch
        ELSE LET col == find(table[mapping_get(charset, key_ch)], ch)
             IN  IF col = 0 THEN ch ELSE charset[col]

\* str.upper() on the characters of the model: a-z, U+00DF (to "SS") and
\* U+00E9.
upper_char(c) ==
    IF c \in 97..122 THEN <<c - 32>>
    ELSE IF c = 223 THEN <<83, 83>>
    ELSE IF c = 233 THEN <<201>>
    ELSE <<c>>

RECURSIVE upper(_)
upper(s) == IF s = <<>> THEN <<>> ELSE upper_char(s[1]) \o upper(Drop(s, 1))

is_upper_charset(charset) == \A i \in 1..Len(charset) : charset[i] \in 65..90

vig_normalize(text, charset) ==
    IF is_upper_charset(charset)
    THEN Filter(upper(text), ToSet(charset))
    ELSE Filter(text, ToSet(charset))

process_text(text, key, table, mode) ==
    LET norm == vig_normalize(text, table[1])
    IN  [i \in 1..Len(norm) |->
            LET key_ch == key[((i - 1) % Len(key)) + 1]
            IN  IF mode = "encrypt"
                THEN encrypt_char(norm[i], key_ch, table)
                ELSE decrypt_char(norm[i], key_ch, table)]

\* Mutant: the output is opened for writing before the table is loaded.
vig_encrypt_file_opening_first(files, input_path, output_path, table_path, key_path) ==
    LET opened == [files EXCEPT ![output_path] = File(<<>>)]
        table == read_table_from_file(files, table_path)
    IN  IF table.err # "none" THEN Opened(Raised(table.err, opened), <<table_path>>)
        ELSE LET key_str == read_key_from_file(files, key_path, ToSet(table.val[1]))
             IN  IF key_str.err # "none"
                 THEN Opened(Raised(key_str.err, opened), <<table_path, key_path>>)
                 ELSE IF ~isfile(files, input_path)
                 THEN Opened(Raised("InputNotFound", opened),
                             <<table_path, key_path, input_path>>)
                 ELSE Opened(Returned([files EXCEPT ![output_path] =
                                 File(process_text(read_text(files, input_path),
                                                   key_str.val, table.val, "encrypt"))]),
                             <<table_path, key_path, input_path, output_path>>)

vig_encrypt_file(files, input_path, output_path, table_path, key_path) ==
    LET table == read_table_from_file(files, table_path)
    IN  IF table.err # "none" THEN Opened(Raised(table.err, files), <<table_path>>)
        ELSE LET key_str == read_key_from_file(files, key_path, ToSet(table.val[1]))
             IN  IF key_str.err # "none"
                 THEN Opened(Raised(key_str.err, files), <<table_path, key_path>>)
                 ELSE IF ~isfile(files, input_path)
                 THEN Opened(Raised("InputNotFound", files),
                             <<table_path, key_path, input_path>>)
                 ELSE Opened(Returned([files EXCEPT ![output_path] =
                                 File(process_text(read_text(files, input_path),
                                                   key_str.val, table.val, "encrypt"))]),
                             <<table_path, key_path, input_path, output_path>>)

\* Mutant: the key file is looked for before the table is loaded.
vig_decrypt_file_key_first(files, input_path, output_path, table_path, key_path) ==
    IF ~isfile(files, key_path)
    THEN Opened(Raised("KeyNotFound", files), <<key_path>>)
    ELSE LET table == read_table_from_file(files, table_path)
         IN  IF table.err # "none"
             THEN Opened(Raised(table.err, files), <<key_path, table_path>>)
             ELSE LET key_str == read_key_from_file(files, key_path, ToSet(table.val[1]))
                  IN  IF key_str.err # "none"
                      THEN Opened(Raised(key_str.err, files), <<key_path, table_path>>)
                      ELSE IF ~isfile(files, input_path)
                      THEN Opened(Raised("InputNotFound", files),
                                  <<key_path, table_path, input_path>>)
                      ELSE Opened(Returned([files EXCEPT ![output_path] =
                                      File(process_text(read_text(files, input_path),
                                                        key_str.val, table.val, "decrypt"))]),
                                  <<key_path, table_path, input_path, output_path>>)

vig_decrypt_file(files, input_path, output_path, table_path, key_path) ==
    LET table == read_table_from_file(files, table_path)
    IN  IF table.err # "none" THEN Opened(Raised(table.err, files), <<table_path>>)
        ELSE LET key_str == read_key_from_file(files, key_path, ToSet(table.val[1]))
             IN  IF key_str.err # "none"
                 THEN Opened(Raised(key_str.err, files), <<table_path, key_path>>)
                 ELSE IF ~isfile(files, input_path)
                 THEN Opened(Raised("InputNotFound", files),
                             <<table_path, key_path, input_path>>)
                 ELSE Opened(Returned([files EXCEPT ![output_path] =
                                 File(process_text(read_text(files, input_path),
                                                   key_str.val, table.val, "decrypt"))]),
                             <<table_path, key_path, input_path, output_path>>)

(***************************************************************************)
(* Inputs of the block-cipher codecs.                                      *)
(***************************************************************************)
Ramp(a, step, n) == [i \in 1..n |-> (a + step * (i - 1)) % 256]

MsgSeeds == {<<65, 1>>, <<114, 1>>, <<250, 3>>}

Msgs == {Ramp(sd[1], sd[2], n) : sd \in MsgSeeds, n \in 0..MaxMsgLen}

\* Inputs long enough to be read as an IV and one or two blocks.
LongMsgs == {Ramp(sd[1], sd[2], n) : sd \in MsgSeeds, n \in {31, 32, 40, 48}}

IVs == {Ramp(37 * j, 11, 16) : j \in 1..NumIVs}

HexLower == <<48, 49, 50, 51, 52, 53, 54, 55, 56, 57, 97, 98, 99, 100, 101, 102>>

HexUpper == <<48, 49, 50, 51, 52, 53, 54, 55, 56, 57, 65, 66, 67, 68, 69, 70>>

KeyKinds == {"hex", "HEX", "raw", "hexsp", "hexgap", "utf", "wrapped", "crlf"}

\* A key file of n characters: hex digits, upper-case hex digits, letters that
\* are no hex digits, hex pairs separated by spaces, hex digits with a space
\* inside the first pair, non-ASCII letters, hex digits wrapped in white
\* space, and letters with a CR LF inside.
KeyText(kind, n) ==
    CASE kind = "hex" -> [i \in 1..n |-> HexLower[((3 * i) % 16) + 1]]
      [] kind = "HEX" -> [i \in 1..n |-> HexUpper[((5 * i) % 16) + 1]]
      [] kind = "raw" -> [i \in 1..n |-> 103 + (i % 19)]
      [] kind = "hexsp" ->
            [i \in 1..n |-> IF i % 3 = 0 THEN 32 ELSE HexLower[((3 * i) % 16) + 1]]
      [] kind = "hexgap" ->
            [i \in 1..n |-> IF i = 2 THEN 32 ELSE HexLower[((3 * i) % 16) + 1]]
      [] kind = "utf" -> [i \in 1..n |-> 233]
      [] kind = "wrapped" ->
            [i \in 1..n |-> IF i = 1 THEN 32
                            ELSE IF i = n THEN 10
                            ELSE HexLower[((3 * i) % 16) + 1]]
      [] kind = "crlf" ->
            [i \in 1..n |-> IF i = 3 THEN 13
                            ELSE IF i = 4 THEN 10
                            ELSE 103 + (i % 19)]

KeyFiles == {Missing} \cup {File(KeyText(kind, n)) : kind \in KeyKinds, n \in 0..MaxKeyChars}

\* The keys the messages are run under: AES-128/192/256, DES, a 15-byte key,
\* no key file.
DataKeyFiles ==
    {Missing, File(KeyText("raw", 16)), File(KeyText("hex", 48)),
     File(KeyText("utf", 16)), File(KeyText("raw", 8)), File(KeyText("raw", 15))}

OldContent == <<111, 108, 100>>

NoCall == [fn |-> "none", inp |-> "", out |-> "", err |-> "none", ret |-> <<>>]

Files(f) == [p \in Paths |-> IF p \in DOMAIN f THEN f[p] ELSE Missing]

InitKey ==
    /\ \E k \in KeyFiles : fs = Files([key |-> k, in |-> File(Ramp(65, 1, 10))])
    /\ last = NoCall

InitBlock ==
    /\ \/ \E k \in DataKeyFiles, m \in Msgs \cup LongMsgs :
             fs = Files([key |-> k, in |-> File(m), dec |-> File(OldContent)])
       \/ \E k \in DataKeyFiles :
             fs = Files([key |-> k, enc |-> File(OldContent)])
    /\ last = NoCall

(***************************************************************************)
(* The calls.  A file-level call leaves its failure in last.err and its    *)
(* files in fs; a function-level call leaves its return value in last.ret. *)
(***************************************************************************)
Called(fn, inp, out, r) ==
    [fn |-> fn, inp |-> inp, out |-> out, err |-> r.err, ret |-> <<>>]

Applied(fn, inp, r) ==
    [fn |-> fn, inp |-> inp, out |-> "", err |-> r.err, ret |-> r.val]

AesReadKeyFile ==
    /\ last' = Applied("aes._read_key_file", "key", aes_read_key_file(fs, "key"))
    /\ UNCHANGED fs

DesReadKeyFile ==
    /\ last' = Applied("des._read_key_file", "key", des_read_key_file(fs, "key"))
    /\ UNCHANGED fs

AesEncryptFile ==
    \E iv \in IVs :
        LET r == aes_encrypt_file(fs, "in", "enc", "key", iv)
        IN  /\ fs' = r.files
            /\ last' = Called("aes.encrypt_file", "in", "enc", r)

AesDecryptFile ==
    \E src \in {"in", "enc"} :
        LET r == aes_decrypt_file(fs, src, "dec", "key")
        IN  /\ fs' = r.files
            /\ last' = Called("aes.decrypt_file", src, "dec", r)

DesEncryptFile ==
    LET r == des_encrypt_file(fs, "in", "enc", "key")
    IN  /\ fs' = r.files
        /\ last' = Called("des.encrypt_file", "in", "enc", r)

DesDecryptFile ==
    \E src \in {"in", "enc"} :
        LET r == des_decrypt_file(fs, src, "dec", "key")
        IN  /\ fs' = r.files
            /\ last' = Called("des.decrypt_file", src, "dec", r)

NextKey ==
    \/ AesReadKeyFile
    \/ DesReadKeyFile

NextBlock ==
    \/ AesEncryptFile
    \/ AesDecryptFile
    \/ DesEncryptFile
    \/ DesDecryptFile

SpecKey == InitKey /\ [][NextKey]_vars

SpecBlock == InitBlock /\ [][NextBlock]_vars

(***************************************************************************)
(* Inputs of the Vigenere codec.                                           *)
(***************************************************************************)
MaxTextLen == 3
MaxVigKeyLen == 2
MaxRows == 2
MaxRowLen == 2

SeqsUpTo(chars, n) == UNION {[1..k -> chars] : k \in 0..n}

RECURSIVE JoinRows(_, _)
JoinRows(rows, eol) ==
    IF rows = <<>> THEN <<>> ELSE rows[1] \o eol \o JoinRows(Drop(rows, 1), eol)

Layouts == {"plain", "noeol", "blank", "crlf"}

\* A table file holding the rows: one per line; without the last line feed;
\* with a blank line after each row and a line of spaces at the end; with
\* CR LF line ends.
TableFile(rows, layout) ==
    CASE layout = "plain" -> File(JoinRows(rows, <<10>>))
      [] layout = "noeol" ->
            File(Take(JoinRows(rows, <<10>>), Len(JoinRows(rows, <<10>>)) - 1))
      [] layout = "blank" -> File(JoinRows(rows, <<10, 10>>) \o <<32, 32, 10>>)
      [] layout = "crlf" -> File(JoinRows(rows, <<13, 10>>))

RowChars == {65, 66}

Rows == SeqsUpTo(RowChars, MaxRowLen) \ {<<>>}

\* Rows with a space inside, with a tab (not a visible character), with a
\* trailing space, with a character the first row has not, and 3 x 3 tables.
OddTables ==
    {<<<<65, 32>>, <<32, 65>>>>, <<<<65, 9>>, <<9, 65>>>>, <<<<65, 32>>, <<65, 66>>>>,
     <<<<65, 66>>, <<66, 67>>>>, <<<<65, 66>>, <<67, 65>>>>, <<<<67, 66>>, <<66, 67>>>>,
     <<<<65, 66, 67>>, <<66, 67, 65>>, <<67, 65, 68>>>>,
     <<<<65, 66, 67>>, <<66, 67, 65>>, <<67, 65, 66>>>>}

\* A table file of the given number of rows, each the n characters from
\* first on, shifted by one more place in each row, with LF line ends.
ShiftTableFile(first, n, rows) ==
    File([i \in 1..(rows * (n + 1)) |->
             IF i % (n + 1) = 0 THEN 10
             ELSE first + ((((i - 1) \div (n + 1)) + ((i - 1) % (n + 1))) % n)])

\* The classic 26 x 26 table of A-Z and the 94 x 94 table of 33..126, whole
\* and with the last row missing.
RangeTableFiles ==
    {ShiftTableFile(65, 26, 26), ShiftTableFile(65, 26, 25),
     ShiftTableFile(33, 94, 94), ShiftTableFile(33, 94, 93)}

\* Tables with a row too few, 3 columns and 2 rows, 2 and 3, and a table
\* with a short row.
NotSquareTableFiles ==
    {ShiftTableFile(65, 3, 2), ShiftTableFile(65, 2, 3), File(<<65, 66, 10, 66, 10>>)}

TableFiles ==
    {Missing} \cup RangeTableFiles
        \cup {TableFile(rows, layout) :
                 rows \in (UNION {[1..k -> Rows] : k \in 0..MaxRows}) \cup OddTables,
                 layout \in Layouts}

Perms(cs) == {r \in [1..Len(cs) -> ToSet(cs)] : ToSet(r) = ToSet(cs)}

\* Every table whose first row is cs and whose other rows are permutations
\* of it: the rows need not be cyclic shifts.
TablesOver(cs) == {<<cs>> \o rest : rest \in [1..(Len(cs) - 1) -> Perms(cs)]}

Charsets == {<<65, 66, 67>>, <<97, 32, 66>>, <<66, 33>>}

ValidTables == UNION {TablesOver(cs) : cs \in Charsets}

FewTables ==
    {<<<<65, 66, 67>>, <<67, 65, 66>>, <<65, 67, 66>>>>,
     <<<<97, 32, 66>>, <<66, 97, 32>>, <<32, 66, 97>>>>,
     <<<<66, 33>>, <<66, 33>>>>,
     <<<<65, 66>>, <<66, 67>>>>}

VigKeyChars == {65, 67, 97, 32}

VigKeyFiles == {Missing} \cup {File(k) : k \in SeqsUpTo(VigKeyChars, MaxVigKeyLen)}

FewVigKeyFiles == {File(<<67, 65>>), File(<<66, 97, 10>>)}

TextChars == {65, 97, 33}

Texts == SeqsUpTo(TextChars, MaxTextLen)

FewTexts == {<<98, 67, 65>>, <<97, 32, 66, 33>>, <<66, 223, 10, 99, 65>>}

InitTable ==
    /\ \E t \in TableFiles :
          fs = Files([table |-> t, vkey |-> File(<<65>>), in |-> File(<<65, 66>>)])
    /\ last = NoCall

\* For the table of A-Z shifted row by row: the keys "KEY", "key" and "Key 1",
\* the texts "ATTACKATDAWN" and "Attack at dawn!".
ClassicKeyFiles == {File(<<75, 69, 89>>), File(<<107, 101, 121>>), File(<<75, 101, 121, 32, 49>>)}

ClassicTexts == {<<65, 84, 84, 65, 67, 75, 65, 84, 68, 65, 87, 78>>,
                 <<65, 116, 116, 97, 99, 107, 32, 97, 116, 32, 100, 97, 119, 110, 33>>}

InitVigenere ==
    /\ \/ \E t \in ValidTables, k \in FewVigKeyFiles, x \in FewTexts :
             fs = Files([table |-> TableFile(t, "plain"), vkey |-> k, in |-> File(x),
                         dec |-> File(OldContent)])
       \/ \E t \in FewTables, k \in VigKeyFiles :
             fs = Files([table |-> TableFile(t, "crlf"), vkey |-> k,
                         in |-> File(<<97, 32, 66, 65>>)])
       \/ \E t \in FewTables, k \in FewVigKeyFiles, x \in Texts :
             fs = Files([table |-> TableFile(t, "blank"), vkey |-> k, in |-> File(x)])
       \/ \E t \in FewTables, k \in FewVigKeyFiles :
             fs \in {Files([table |-> TableFile(t, "plain"), vkey |-> k]),
                     Files([vkey |-> k, in |-> File(<<65>>), enc |-> File(OldContent)])}
       \/ \E t \in NotSquareTableFiles, k \in VigKeyFiles :
             fs = Files([table |-> t, vkey |-> k, in |-> File(<<65, 66>>)])
       \/ \E k \in {Missing, File(<<>>), File(<<67, 65>>)} :
             fs = Files([table |-> ShiftTableFile(33, 94, 93), vkey |-> k,
                         in |-> File(<<65, 66>>)])
       \/ \E k \in ClassicKeyFiles, x \in ClassicTexts :
             fs = Files([table |-> ShiftTableFile(65, 26, 26), vkey |-> k, in |-> File(x)])
    /\ last = NoCall

(***************************************************************************)
(* The calls of the Vigenere codec.  process_text is applied to the text   *)
(* of "in" under the table and the key the two loaders return, and then to *)
(* its own result.                                                         *)
(***************************************************************************)
VigTable == read_table_from_file(fs, "table")

VigKey == read_key_from_file(fs, "vkey", ToSet(VigTable.val[1]))

VigLoaded == VigTable.err = "none" /\ VigKey.err = "none" /\ isfile(fs, "in")

VigReadTable ==
    /\ last' = Applied("vigenere.read_table_from_file", "table", VigTable)
    /\ UNCHANGED fs

VigEncryptText ==
    /\ VigLoaded
    /\ last' = Applied("vigenere.process_text.encrypt", "in",
                        Ok(process_text(read_text(fs, "in"), VigKey.val,
                                        VigTable.val, "encrypt")))
    /\ UNCHANGED fs

VigDecryptText ==
    /\ VigLoaded
    /\ last.fn = "vigenere.process_text.encrypt"
    /\ last' = Applied("vigenere.process_text.decrypt", "in",
                        Ok(process_text(last.ret, VigKey.val, VigTable.val, "decrypt")))
    /\ UNCHANGED fs

VigEncryptFile ==
    LET r == vig_encrypt_file(fs, "in", "enc", "table", "vkey")
    IN  /\ fs' = r.files
        /\ last' = [Called("vigenere.encrypt_file", "in", "enc", r)
                        EXCEPT !.ret = r.opened]

VigDecryptFile ==
    \E src \in {"in", "enc"} :
        LET r == vig_decrypt_file(fs, src, "dec", "table", "vkey")
        IN  /\ fs' = r.files
            /\ last' = [Called("vigenere.decrypt_file", src, "dec", r)
                            EXCEPT !.ret = r.opened]

NextTable == VigReadTable

NextVigenere ==
    \/ VigEncryptText
    \/ VigDecryptText
    \/ VigEncryptFile
    \/ VigDecryptFile

SpecTable == InitTable /\ [][NextTable]_vars

SpecVigenere == InitVigenere /\ [][NextVigenere]_vars

(***************************************************************************)
(* What the claims say of the block-cipher codecs, in terms of the files   *)
(* and of the last call.                                                   *)
(***************************************************************************)
AesKey == aes_read_key_file(fs, "key").val

DesKey == des_read_key_file(fs, "key").val

AesOk(fn) == last.fn = fn /\ last.err = "none"

\* The plaintext blocks behind an AES output file: its first 16 bytes are
\* the IV, the rest is the CBC ciphertext.
AesOpened(data) == cbc_decrypt(AesKey, SubSeq(data, 1, 16), SubSeq(data, 17, Len(data)))

DesOpened(data) == ecb_decrypt(DesKey, data)

\* C1: decrypt_file on the output of encrypt_file, same key, writes exactly
\* the bytes encrypt_file read, for AES-CBC and for DES-ECB.
C1_RoundTrip ==
    [][/\ (/\ last.fn = "aes.encrypt_file" /\ last.err = "none"
            /\ last'.fn = "aes.decrypt_file" /\ last'.inp = "enc")
           => (last'.err = "none" /\ fs'["dec"] = File(fs["in"].data))
       /\ (/\ last.fn = "des.encrypt_file" /\ last.err = "none"
            /\ last'.fn = "des.decrypt_file" /\ last'.inp = "enc")
           => (last'.err = "none" /\ fs'["dec"] = File(fs["in"].data))]_vars

\* An AES round trip of a message of more than one block whose length is no
\* multiple of the block size.
C1_Witness ==
    /\ last.fn = "aes.decrypt_file" /\ last.inp = "enc" /\ last.err = "none"
    /\ Len(fs["in"].data) = 17
    /\ Len(fs["enc"].data) = 48
    /\ fs["dec"].data = fs["in"].data

\* C7: encrypt_file pads L bytes with p = B - (L mod B) bytes of value p,
\* 1 <= p <= B, a full block when L is a multiple of B; the ciphertext
\* length is a positive multiple of B.
PaddedAsClaimed(padded, data, B) ==
    LET L == Len(data)
        p == B - (L % B)
    IN  /\ p \in 1..B
        /\ (L % B = 0) => p = B
        /\ Len(padded) = L + p
        /\ SubSeq(padded, 1, L) = data
        /\ \A i \in (L + 1)..(L + p) : padded[i] = p
        /\ Len(padded) > 0 /\ Len(padded) % B = 0

C7_Padding ==
    /\ AesOk("aes.encrypt_file") =>
          /\ PaddedAsClaimed(AesOpened(fs["enc"].data), fs["in"].data, 16)
          /\ (Len(fs["enc"].data) - 16) % 16 = 0
    /\ AesOk("des.encrypt_file") =>
          /\ PaddedAsClaimed(DesOpened(fs["enc"].data), fs["in"].data, 8)
          /\ Len(fs["enc"].data) > 0 /\ Len(fs["enc"].data) % 8 = 0

\* A block-aligned plaintext that received a full block of padding.
C7_Witness ==
    /\ AesOk("des.encrypt_file")
    /\ Len(fs["in"].data) = 8
    /\ Len(fs["enc"].data) = 16
    /\ \A i \in 9..16 : DesOpened(fs["enc"].data)[i] = 8

StrippedAsClaimed(d, B) ==
    LET p == d[Len(d)]
    IN  IF p = 0 \/ p > B
        THEN last.err = "InvalidPadding"
        ELSE last.err = "none" /\ fs["dec"] = File(SubSeq(d, 1, Len(d) - p))

C9_Unpadding ==
    /\ (/\ last.fn = "aes.decrypt_file"
         /\ aes_read_key_file(fs, "key").err = "none"
         /\ fs[last.inp].exists
         /\ Len(fs[last.inp].data) > 16 /\ Len(fs[last.inp].data) % 16 = 0)
        => StrippedAsClaimed(AesOpened(fs[last.inp].data), 16)
    /\ (/\ last.fn = "des.decrypt_file"
         /\ des_read_key_file(fs, "key").err = "none"
         /\ fs[last.inp].exists
         /\ Len(fs[last.inp].data) > 0 /\ Len(fs[last.inp].data) % 8 = 0)
        => StrippedAsClaimed(DesOpened(fs[last.inp].data), 8)

\* A decrypt that succeeded on data whose last byte p is in range while the
\* other bytes it removed are not all p.
C9_Witness ==
    /\ AesOk("des.decrypt_file")
    /\ LET d == DesOpened(fs[last.inp].data)
           p == d[Len(d)]
       IN  /\ p \in 2..8
           /\ \E i \in (Len(d) - p + 1)..Len(d) : d[i] # p
           /\ fs["dec"] = File(SubSeq(d, 1, Len(d) - p))

\* A decrypt that failed with InvalidPadding.
C9_Rejected ==
    /\ last.fn = "aes.decrypt_file" /\ last.err = "InvalidPadding"

(***************************************************************************)
(* What the claims say of key loading, stated on the text of the key file. *)
(***************************************************************************)
KeyFileText == read_text(fs, "key")

\* The text without its leading and trailing white space.
Trimmed(s) ==
    LET keep == {i \in 1..Len(s) : s[i] \notin Whitespace}
    IN  IF keep = {} THEN <<>>
        ELSE SubSeq(s, CHOOSE i \in keep : \A j \in keep : i <= j,
                       CHOOSE i \in keep : \A j \in keep : j <= i)

HexDigitChars == ToSet(HexLower) \cup ToSet(HexUpper)

HexValueOf(c) == CHOOSE v \in 0..15 : HexLower[v + 1] = c \/ HexUpper[v + 1] = c

NotAsciiSpace(c) == c \notin AsciiSpace

\* A hex string: pairs of hex digits, white space allowed between pairs only.
IsHexString(t) ==
    /\ \A i \in 1..Len(t) : t[i] \in AsciiSpace \cup HexDigitChars
    /\ Len(SelectSeq(t, NotAsciiSpace)) % 2 = 0
    /\ \A i \in 1..Len(t) :
          t[i] \in AsciiSpace =>
              Cardinality({j \in 1..i : t[j] \notin AsciiSpace}) % 2 = 0

HexDecoding(t) ==
    LET d == SelectSeq(t, NotAsciiSpace)
    IN  [k \in 1..(Len(d) \div 2) |->
            16 * HexValueOf(d[2 * k - 1]) + HexValueOf(d[2 * k])]

\* UTF-8 of the key texts of the model: ASCII is one byte, U+00E9 is C3 A9.
RECURSIVE Utf8Encoding(_)
Utf8Encoding(t) ==
    IF t = <<>> THEN <<>>
    ELSE (IF t[1] = 233 THEN <<195, 169>> ELSE <<t[1]>>)
             \o Utf8Encoding(SubSeq(t, 2, Len(t)))

ClaimedKeyBytes(t) == IF IsHexString(t) THEN HexDecoding(t) ELSE Utf8Encoding(t)

KeyLoadedAsClaimed(lengths) ==
    IF ~fs["key"].exists THEN last.err = "KeyNotFound"
    ELSE LET k == ClaimedKeyBytes(Trimmed(KeyFileText))
         IN  IF Len(k) \in lengths
             THEN last.err = "none" /\ last.ret = k
             ELSE last.err = "InvalidKeyLength"

\* C5: the key is the hex decoding of the trimmed key file text when that is
\* a hex string and its UTF-8 encoding otherwise; AES accepts 16, 24 or 32
\* bytes, DES exactly 8, any other length is InvalidKeyLength and a missing
\* file KeyNotFound.
C5_KeyLoading ==
    /\ last.fn = "aes._read_key_file" => KeyLoadedAsClaimed({16, 24, 32})
    /\ last.fn = "des._read_key_file" => KeyLoadedAsClaimed({8})

\* A 24-byte AES key loaded from 50 characters: 48 hex digits in white space.
C5_Witness ==
    /\ last.fn = "aes._read_key_file" /\ last.err = "none"
    /\ Len(fs["key"].data) = 50
    /\ IsHexString(Trimmed(KeyFileText))
    /\ Len(last.ret) = 24

\* C6 as stated: a 16/24/32-byte AES key is accepted and a 15-byte key is
\* InvalidKeyLength, for a hex string of that many bytes and for a raw text
\* whose UTF-8 encoding has that many bytes and is then the key.
C6_AsStated ==
    (last.fn = "aes._read_key_file" /\ fs["key"].exists) =>
        LET t == Trimmed(KeyFileText)
            u == Utf8Encoding(t)
        IN  /\ (IsHexString(t) /\ Len(HexDecoding(t)) \in {16, 24, 32})
                   => last.err = "none"
            /\ (IsHexString(t) /\ Len(HexDecoding(t)) = 15)
                   => last.err = "InvalidKeyLength"
            /\ Len(u) \in {16, 24, 32} => (last.err = "none" /\ last.ret = u)
            /\ Len(u) = 15 => last.err = "InvalidKeyLength"

\* C6 amended: the raw-text format is any text that is not a hex string; a
\* text that is a hex string is always taken as hex.
C6_KeyLengths ==
    (last.fn = "aes._read_key_file" /\ fs["key"].exists) =>
        LET t == Trimmed(KeyFileText)
            u == Utf8Encoding(t)
        IN  /\ (IsHexString(t) /\ Len(HexDecoding(t)) \in {16, 24, 32})
                   => (last.err = "none" /\ last.ret = HexDecoding(t))
            /\ (IsHexString(t) /\ Len(HexDecoding(t)) = 15)
                   => last.err = "InvalidKeyLength"
            /\ (~IsHexString(t) /\ Len(u) \in {16, 24, 32})
                   => (last.err = "none" /\ last.ret = u)
            /\ (~IsHexString(t) /\ Len(u) = 15) => last.err = "InvalidKeyLength"

\* A raw text of 8 characters whose UTF-8 encoding is a 16-byte key.
C6_Witness ==
    /\ last.fn = "aes._read_key_file" /\ last.err = "none"
    /\ ~IsHexString(Trimmed(KeyFileText))
    /\ Len(Trimmed(KeyFileText)) = 8
    /\ Len(last.ret) = 16
    /\ last.ret = Utf8Encoding(Trimmed(KeyFileText))

(***************************************************************************)
(* What the claims say of the Vigenere codec.                              *)
(***************************************************************************)
\* The lines of a text that hold more than white space, in order, found by
\* the positions of the line feeds.
NonBlankLines(text) ==
    LET feeds == SelectSeq([i \in 1..Len(text) |-> i], LAMBDA i : text[i] = 10)
        LineAt(k) == SubSeq(text,
                            IF k = 1 THEN 1 ELSE feeds[k - 1] + 1,
                            IF k <= Len(feeds) THEN feeds[k] - 1 ELSE Len(text))
    IN  SelectSeq([k \in 1..(Len(feeds) + 1) |-> LineAt(k)],
                  LAMBDA line : \E i \in 1..Len(line) : line[i] \notin Whitespace)

Occurrences(row, c) == Cardinality({i \in 1..Len(row) : row[i] = c})

HasDuplicate(row) == \E c \in ToSet(row) : Occurrences(row, c) > 1

\* row holds every character of first exactly once and nothing else.
IsPermutationOf(row, first) ==
    /\ \A c \in ToSet(first) : Occurrences(row, c) = 1
    /\ \A c \in ToSet(row) : Occurrences(first, c) >= 1

\* C10: read_table_from_file returns a table only if the non-empty lines
\* form an N x N square, row 0 has no duplicate and every row is a
\* permutation of row 0's characters; a table with a row whose character set
\* differs from row 0's is rejected (InconsistentTable when it is a square of
\* visible characters) and a table with a duplicate in row 0 is rejected.
C10_TableValidation ==
    last.fn = "vigenere.read_table_from_file" =>
        LET rows == NonBlankLines(read_text(fs, "table"))
            N == Len(rows)
            square == \A i \in 1..N : Len(rows[i]) = N
        IN  /\ last.err = "none" =>
                  /\ fs["table"].exists
                  /\ last.ret = rows
                  /\ N >= 1 /\ square
                  /\ ~HasDuplicate(rows[1])
                  /\ \A i \in 1..N : IsPermutationOf(rows[i], rows[1])
            /\ (fs["table"].exists /\ N >= 1
                    /\ \E i \in 2..N : ToSet(rows[i]) # ToSet(rows[1])) =>
                  /\ last.err \in {"MalformedTable", "InvalidCharacters", "InconsistentTable"}
                  /\ (square /\ ToSet(rows[1]) \subseteq 32..126)
                         => last.err = "InconsistentTable"
            /\ (fs["table"].exists /\ N >= 1 /\ HasDuplicate(rows[1])) =>
                  /\ last.err \in {"MalformedTable", "InvalidCharacters",
                                    "InconsistentTable", "DuplicateCharacters"}
                  /\ (square /\ \A i \in 1..N : ToSet(rows[i]) = ToSet(rows[1]))
                         => last.err = "DuplicateCharacters"

\* A 3 x 3 table accepted from a file with blank lines between its rows.
C10_Witness ==
    /\ last.fn = "vigenere.read_table_from_file" /\ last.err = "none"
    /\ Len(last.ret) = 3
    /\ Len(fs["table"].data) = 18

\* A square table of visible characters refused for one row's character set.
C10_Inconsistent ==
    /\ last.fn = "vigenere.read_table_from_file" /\ last.err = "InconsistentTable"
    /\ Len(NonBlankLines(read_text(fs, "table"))) = 3

\* The text as process_text keeps it: upper-cased when the charset is all
\* A-Z, then without the characters that are not in the charset.
ClaimedFiltered(text, charset) ==
    LET t == IF \A i \in 1..Len(charset) : charset[i] \in 65..90
             THEN upper(text) ELSE text
    IN  SelectSeq(t, LAMBDA c : \E i \in 1..Len(charset) : charset[i] = c)

\* C2: for an accepted table and a non-empty key of charset characters,
\* process_text in decrypt mode applied to process_text in encrypt mode of a
\* text returns the text filtered to the charset (upper-cased first when the
\* charset is all A-Z).
C2_VigenereRoundTrip ==
    last.fn = "vigenere.process_text.decrypt" =>
        last.ret = ClaimedFiltered(read_text(fs, "in"), VigTable.val[1])

\* A round trip of three kept characters under a two-character key that
\* does not give the text back as it was written.
C2_Witness ==
    /\ last.fn = "vigenere.process_text.decrypt"
    /\ Len(last.ret) = 3
    /\ Len(VigKey.val) = 2
    /\ last.ret # read_text(fs, "in")

(***************************************************************************)
(* playfair.py                                                             *)
(***************************************************************************)
RECURSIVE Concat(_)
Concat(seqs) == IF seqs = <<>> THEN <<>> ELSE seqs[1] \o Concat(Drop(seqs, 1))

\* line.lstrip of the byte order mark
RECURSIVE lstrip_bom(_)
lstrip_bom(line) ==
    IF line # <<>> /\ line[1] = 65279 THEN lstrip_bom(Drop(line, 1)) ELSE line

\* raw_lines (non-blank lines, the first without its byte order mark), each
\* stripped of surrounding white space.
board_lines(text) ==
    LET raw_lines == SelectSeq(split_lines(text), LAMBDA line : strip(line) # <<>>)
    IN  [i \in 1..Len(raw_lines) |->
            strip(IF i = 1 THEN lstrip_bom(raw_lines[i]) ELSE raw_lines[i])]

\* for ch in chars: if ch not in flat: flat.append(ch), from an empty flat:
\* the characters in the order of their first occurrence.
append_new(chars) ==
    LET first == SelectSeq([i \in 1..Len(chars) |-> i],
                           LAMBDA i : \A j \in 1..(i - 1) : chars[j] # chars[i])
    IN  [k \in 1..Len(first) |-> chars[first[k]]]

is_letter(c) == c \in 65..90 \/ c \in 97..122

\* s.replace("J", "I")
replace_J(s) == [i \in 1..Len(s) |-> IF s[i] = 74 THEN 73 ELSE s[i]]

\* "ABCDEFGHIKLMNOPQRSTUVWXYZ"
alphabet_without_J == [i \in 1..25 |-> IF i <= 9 THEN 64 + i ELSE 65 + i]

\* [flat[i:i+n] for i in range(0, n*n, n)]
board_rows(flat, n) == [r \in 1..n |-> Take(Drop(flat, (r - 1) * n), n)]

\* int(math.ceil(math.sqrt(k)))
ceil_sqrt(k) == CHOOSE n \in 0..k : n * n >= k /\ (n = 0 \/ (n - 1) * (n - 1) < k)

\* Mutant: J keeps its own cell.
classic_board_keeping_J(seen) ==
    LET own == Filter(upper(seen), 65..90)
        flat == append_new(own \o alphabet_without_J)
    IN  board_rows(Take(flat, 25), 5)

classic_board(seen) ==
    LET own == Filter(replace_J(upper(seen)), 65..90)
        flat == append_new(own \o alphabet_without_J)
    IN  board_rows(Take(flat, 25), 5)

\* Mutant: the filling characters go up to 126.
extended_board_filling_to_126(seen) ==
    LET n == ceil_sqrt(Len(seen))
        spare == SelectSeq([i \in 1..94 |-> 32 + i], LAMBDA c : c \notin ToSet(seen))
        flat == seen \o Take(spare, n * n - Len(seen))
    IN  board_rows(Take(flat, n * n), n)

\* The second filling loop of the code runs only while len(flat) > n*n, which
\* the choice of n excludes.
extended_board(seen) ==
    LET n == ceil_sqrt(Len(seen))
        spare == SelectSeq([i \in 1..93 |-> 32 + i], LAMBDA c : c \notin ToSet(seen))
        flat == seen \o Take(spare, n * n - Len(seen))
    IN  board_rows(Take(flat, n * n), n)

\* Mutant: a file without characters is refused before the letters are tested.
read_board_from_file_refusing_empty(files, path) ==
    IF ~isfile(files, path) THEN Raise("BoardNotFound")
    ELSE LET seen == append_new(Concat(board_lines(read_text(files, path))))
             letters_only == \A i \in 1..Len(seen) : is_letter(seen[i])
         IN  IF seen = <<>> THEN Raise("NoUsableCharacters")
             ELSE IF letters_only THEN Ok(classic_board(seen))
             ELSE Ok(extended_board(seen))

\* Mutant: more than 25 different letters make an extended board.
read_board_from_file_counting_letters(files, path) ==
    IF ~isfile(files, path) THEN Raise("BoardNotFound")
    ELSE LET seen == append_new(Concat(board_lines(read_text(files, path))))
             letters_only == \A i \in 1..Len(seen) : is_letter(seen[i])
         IN  IF letters_only /\ Len(seen) <= 25 THEN Ok(classic_board(seen))
             ELSE IF seen = <<>> THEN Raise("NoUsableCharacters")
             ELSE Ok(extended_board(seen))

read_board_from_file(files, path) ==
    IF ~isfile(files, path) THEN Raise("BoardNotFound")
    ELSE LET seen == append_new(Concat(board_lines(read_text(files, path))))
             letters_only == \A i \in 1..Len(seen) : is_letter(seen[i])
         IN  IF letters_only THEN Ok(classic_board(seen))
             ELSE IF seen = <<>> THEN Raise("NoUsableCharacters")
             ELSE Ok(extended_board(seen))

board_flat(board) == Concat(board)

\* len(flat) == 25 and all("A" <= c <= "Z" for c in flat)
is_classic(board) ==
    LET flat == board_flat(board)
    IN  Len(flat) = 25 /\ \A i \in 1..Len(flat) : flat[i] \in 65..90

\* Mutant: the letter is looked up as it is on every board.
search_letter_as_given(board, letter) ==
    LET cells == {c \in (1..Len(board)) \X (1..Len(board[1])) :
                     /\ c[2] <= Len(board[c[1]])
                     /\ letter = board[c[1]][c[2]]}
    IN  IF cells = {} THEN <<>>
        ELSE CHOOSE c \in cells :
                 \A d \in cells : c[1] < d[1] \/ (c[1] = d[1] /\ c[2] <= d[2])

\* The cell <<row, column>> of letter, counted from 1, or <<>> for None.
search_letter(board, letter) ==
    LET wanted == IF is_classic(board) THEN replace_J(upper_char(letter)) ELSE <<letter>>
        cells == {c \in (1..Len(board)) \X (1..Len(board[1])) :
                     /\ c[2] <= Len(board[c[1]])
                     /\ wanted = <<board[c[1]][c[2]]>>}
    IN  IF cells = {} THEN <<>>
        ELSE CHOOSE c \in cells :
                 \A d \in cells : c[1] < d[1] \/ (c[1] = d[1] /\ c[2] <= d[2])

\* Mutant: the message is cut in twos, no filler between equal characters.
split_digraphs_in_twos(message) ==
    IF Len(message) % 2 = 1 THEN Append(message, 88) ELSE message

\* The digraph loop of fix_message; 88 is the filler "X".
RECURSIVE split_digraphs(_)
split_digraphs(message) ==
    IF message = <<>> THEN <<>>
    ELSE LET a == message[1]
             b == IF Len(message) >= 2 THEN message[2] ELSE 88
         IN  IF a = b THEN <<a, 88>> \o split_digraphs(Drop(message, 1))
             ELSE <<a, b>> \o split_digraphs(Drop(message, 2))

\* Mutant: the filler is Q.
fix_message_filling_with_Q(message, allowed_chars, map_j) ==
    LET s == IF map_j THEN upper(replace_J(message)) ELSE message
        result == split_digraphs(Filter(s, allowed_chars))
    IN  [i \in 1..Len(result) |-> IF result[i] = 88 THEN 81 ELSE result[i]]

\* Mutant: the message is upper-cased before J is replaced.
fix_message_upper_first(message, allowed_chars, map_j) ==
    LET s == IF map_j THEN replace_J(upper(message)) ELSE message
        result == split_digraphs(Filter(s, allowed_chars))
    IN  IF Len(result) % 2 # 0 THEN Append(result, 88) ELSE result

\* fix_message(message): allowed_chars is None.
fix_message_default(message) ==
    LET result == split_digraphs(Filter(replace_J(upper(message)), 65..90))
    IN  IF Len(result) % 2 # 0 THEN Append(result, 88) ELSE result

fix_message(message, allowed_chars, map_j) ==
    LET s == IF map_j THEN upper(replace_J(message)) ELSE message
        result == split_digraphs(Filter(s, allowed_chars))
    IN  IF Len(result) % 2 # 0 THEN Append(result, 88) ELSE result

\* Mutant: a pair on one row is moved right in both modes.
process_pair_always_right(board, a, b, mode) ==
    LET pos_a == search_letter(board, a)
        pos_b == search_letter(board, b)
        rows == Len(board)
        cols == Len(board[1])
    IN  IF pos_a = <<>> \/ pos_b = <<>> THEN <<a, b>>
        ELSE IF pos_a[1] = pos_b[1]
             THEN <<board[pos_a[1]][(pos_a[2] % cols) + 1],
                    board[pos_b[1]][(pos_b[2] % cols) + 1]>>
        ELSE IF pos_a[2] = pos_b[2]
             THEN IF mode = "encrypt"
                  THEN <<board[(pos_a[1] % rows) + 1][pos_a[2]],
                         board[(pos_b[1] % rows) + 1][pos_b[2]]>>
                  ELSE <<board[((pos_a[1] - 2 + rows) % rows) + 1][pos_a[2]],
                         board[((pos_b[1] - 2 + rows) % rows) + 1][pos_b[2]]>>
        ELSE <<board[pos_a[1]][pos_b[2]], board[pos_b[1]][pos_a[2]]>>

\* Mutant: a pair of one column is moved down in both modes.
process_pair_always_down(board, a, b, mode) ==
    LET pos_a == search_letter(board, a)
        pos_b == search_letter(board, b)
        rows == Len(board)
        cols == Len(board[1])
    IN  IF pos_a = <<>> \/ pos_b = <<>> THEN <<a, b>>
        ELSE IF pos_a[1] = pos_b[1]
             THEN IF mode = "encrypt"
                  THEN <<board[pos_a[1]][(pos_a[2] % cols) + 1],
                         board[pos_b[1]][(pos_b[2] % cols) + 1]>>
                  ELSE <<board[pos_a[1]][((pos_a[2] - 2 + cols) % cols) + 1],
                         board[pos_b[1]][((pos_b[2] - 2 + cols) % cols) + 1]>>
        ELSE IF pos_a[2] = pos_b[2]
             THEN <<board[(pos_a[1] % rows) + 1][pos_a[2]],
                    board[(pos_b[1] % rows) + 1][pos_b[2]]>>
        ELSE <<board[pos_a[1]][pos_b[2]], board[pos_b[1]][pos_a[2]]>>

process_pair(board, a, b, mode) ==
    LET pos_a == search_letter(board, a)
        pos_b == search_letter(board, b)
        rows == Len(board)
        cols == Len(board[1])
    IN  IF pos_a = <<>> \/ pos_b = <<>> THEN <<a, b>>
        ELSE IF pos_a[1] = pos_b[1]
             THEN IF mode = "encrypt"
                  THEN <<board[pos_a[1]][(pos_a[2] % cols) + 1],
                         board[pos_b[1]][(pos_b[2] % cols) + 1]>>
                  ELSE <<board[pos_a[1]][((pos_a[2] - 2 + cols) % cols) + 1],
                         board[pos_b[1]][((pos_b[2] - 2 + cols) % cols) + 1]>>
        ELSE IF pos_a[2] = pos_b[2]
             THEN IF mode = "encrypt"
                  THEN <<board[(pos_a[1] % rows) + 1][pos_a[2]],
                         board[(pos_b[1] % rows) + 1][pos_b[2]]>>
                  ELSE <<board[((pos_a[1] - 2 + rows) % rows) + 1][pos_a[2]],
                         board[((pos_b[1] - 2 + rows) % rows) + 1][pos_b[2]]>>
        ELSE <<board[pos_a[1]][pos_b[2]], board[pos_b[1]][pos_a[2]]>>

\* for i in range(0, len(text), 2): result += process_pair(..., text[i], text[i+1], mode)
\* for a text of even length.
process_pairs(text, board, mode) ==
    Concat([k \in 1..(Len(text) \div 2) |->
               process_pair(board, text[2 * k - 1], text[2 * k], mode)])

encrypt_text(text, board) ==
    LET fixed == fix_message(text, ToSet(board_flat(board)), is_classic(board))
    IN  process_pairs(fixed, board, "encrypt")

\* text[i + 1] raises IndexError on the last character of a text of odd length.
\* Mutant: an unpaired last character is left out.
decrypt_text_skipping_unpaired(text, board) ==
    LET flat == ToSet(board_flat(board))
        kept == IF is_classic(board) THEN Filter(replace_J(upper(text)), flat)
                ELSE Filter(text, flat)
    IN  Ok(process_pairs(Take(kept, Len(kept) - (Len(kept) % 2)), board, "decrypt"))

decrypt_text(text, board) ==
    LET flat == ToSet(board_flat(board))
        kept == IF is_classic(board) THEN Filter(replace_J(upper(text)), flat)
                ELSE Filter(text, flat)
    IN  IF Len(kept) % 2 # 0 THEN Raise("IndexError")
        ELSE Ok(process_pairs(kept, board, "decrypt"))

pf_encrypt_file(files, input_path, output_path, key) ==
    LET board == read_board_from_file(files, key)
    IN  IF board.err # "none" THEN Raised(board.err, files)
        ELSE IF ~isfile(files, input_path) THEN Raised("InputNotFound", files)
        ELSE Returned([files EXCEPT ![output_path] =
                 File(encrypt_text(read_text(files, input_path), board.val))])

\* Mutant: the plaintext is written as decrypt_text returned it.
replace_I_left_out(plain) == plain

\* plain.replace("I", "I/J")
RECURSIVE replace_I(_)
replace_I(plain) ==
    IF plain = <<>> THEN <<>>
    ELSE (IF plain[1] = 73 THEN <<73, 47, 74>> ELSE <<plain[1]>>)
         \o replace_I(Drop(plain, 1))

pf_decrypt_file(files, input_path, output_path, key) ==
    LET board == read_board_from_file(files, key)
    IN  IF board.err # "none" THEN Raised(board.err, files)
        ELSE IF ~isfile(files, input_path) THEN Raised("InputNotFound", files)
        ELSE LET plain == decrypt_text(read_text(files, input_path), board.val)
                 flat == board_flat(board.val)
                 letters == Len(flat) = 25 /\ \A i \in 1..Len(flat) : is_letter(flat[i])
             IN  IF plain.err # "none" THEN Raised(plain.err, files)
                 ELSE Returned([files EXCEPT ![output_path] =
                          File(IF letters THEN replace_I(plain.val) ELSE plain.val)])

(***************************************************************************)
(* Playfair inputs: board files and texts.                                 *)
(***************************************************************************)
MaxPfTextLen == 3

\* "a", "X", "J", "1"
PfTextChars == {97, 88, 74, 49}

\* "Jazz, aXe!" and "HELLO WORLD"
LongPfTexts == {<<74, 97, 122, 122, 44, 32, 97, 88, 101, 33>>,
                <<72, 69, 76, 76, 79, 32, 87, 79, 82, 76, 68>>,
                <<106, 97, 122, 122>>}

PfTexts == SeqsUpTo(PfTextChars, MaxPfTextLen) \cup LongPfTexts

\* Letters only (an empty file, a file of white space, "KEY", "jazz" / "ab", "PLAYF" / "IREXM") and
\* boards with other characters ("ab1!", "aX" / "1", a byte order mark and
\* "a b" / " 1X").
BoardFiles ==
    { File(<<>>),
      File(<<32, 10, 9, 10>>),
      File(<<75, 69, 89, 10>>),
      File(<<106, 97, 122, 122, 10, 97, 98, 10>>),
      File(<<80, 76, 65, 89, 70, 10, 73, 82, 69, 88, 77, 10>>),
      File(<<97, 98, 49, 33>>),
      File(<<97, 88, 13, 10, 49, 13, 10>>),
      File(<<65279, 97, 32, 98, 10, 10, 32, 49, 88, 10>>) }

\* Board files that are only read: "aA", the capital letters A-Z, the small
\* letters a-z and "A", "1", "!#a", "12345", "a b", and the characters
\* 33..114 and 33..126.
ReadBoardFiles ==
    { File(<<97, 65>>),
      File([i \in 1..26 |-> 64 + i]),
      File([i \in 1..27 |-> IF i <= 26 THEN 96 + i ELSE 65]),
      File(<<49>>),
      File(<<33, 35, 97>>),
      File(<<49, 50, 51, 10, 52, 53, 10>>),
      File(<<97, 32, 98>>),
      File([i \in 1..82 |-> 32 + i]),
      File([i \in 1..94 |-> 32 + i]) }

InitPlayfair ==
    /\ \/ \E b \in BoardFiles, x \in PfTexts :
             fs = Files([board |-> b, in |-> File(x)])
       \/ fs = Files([in |-> File(<<97>>)])
       \/ \E b \in ReadBoardFiles : fs = Files([board |-> b])
    /\ last = NoCall

PfBoard == read_board_from_file(fs, "board")

PfReadBoard ==
    /\ last' = Applied("playfair.read_board_from_file", "board", PfBoard)
    /\ UNCHANGED fs

PfEncryptText ==
    /\ PfBoard.err = "none" /\ isfile(fs, "in")
    /\ last' = Applied("playfair.encrypt_text", "in",
                        Ok(encrypt_text(read_text(fs, "in"), PfBoard.val)))
    /\ UNCHANGED fs

\* decrypt_text applied to what encrypt_text just returned.
PfDecryptText ==
    /\ PfBoard.err = "none" /\ last.fn = "playfair.encrypt_text"
    /\ last' = Applied("playfair.decrypt_text", "in", decrypt_text(last.ret, PfBoard.val))
    /\ UNCHANGED fs

\* fix_message as encrypt_text calls it, with the board's characters.
PfFixMessage ==
    /\ PfBoard.err = "none" /\ isfile(fs, "in")
    /\ last' = Applied("playfair.fix_message", "in",
                        Ok(fix_message(read_text(fs, "in"), ToSet(board_flat(PfBoard.val)),
                                       is_classic(PfBoard.val))))
    /\ UNCHANGED fs

\* fix_message as the test script calls it, without allowed_chars.
PfFixMessageDefault ==
    /\ isfile(fs, "in")
    /\ last' = Applied("test_playfair_ascii.fix_message", "in",
                        Ok(fix_message_default(read_text(fs, "in"))))
    /\ UNCHANGED fs

NextPlayfair ==
    \/ PfReadBoard
    \/ PfEncryptText
    \/ PfDecryptText
    \/ PfFixMessage
    \/ PfFixMessageDefault

SpecPlayfair == InitPlayfair /\ [][NextPlayfair]_vars

(***************************************************************************)
(* process_pair on the boards read, for pairs of characters on and off the *)
(* board.                                                                  *)
(***************************************************************************)
\* "A", "a", "j", "X", "1", "F"
PairChars == {65, 97, 106, 88, 49, 70}

Modes == {"encrypt", "decrypt"}

InitPair ==
    /\ \E b \in BoardFiles : fs = Files([board |-> b])
    /\ last = NoCall

PfProcessPair ==
    /\ PfBoard.err = "none"
    /\ \E a \in PairChars, b \in PairChars, mode \in Modes :
           last' = Applied("playfair.process_pair", [a |-> a, b |-> b, mode |-> mode],
                           Ok(process_pair(PfBoard.val, a, b, mode)))
    /\ UNCHANGED fs

\* process_pair applied, in either mode, to what it returned in encrypt mode.
PfProcessPairAgain ==
    /\ PfBoard.err = "none"
    /\ last.fn = "playfair.process_pair" /\ last.inp.mode = "encrypt"
    /\ \E mode \in Modes :
           last' = Applied("playfair.process_pair.again",
                           [a |-> last.inp.a, b |-> last.inp.b, mode |-> mode,
                            pair |-> last.ret],
                           Ok(process_pair(PfBoard.val, last.ret[1], last.ret[2], mode)))
    /\ UNCHANGED fs

NextPair == PfReadBoard \/ PfProcessPair \/ PfProcessPairAgain

SpecPair == InitPair /\ [][NextPair]_vars

(***************************************************************************)
(* What the claims say of the Playfair codec.                              *)
(***************************************************************************)
\* The characters of the board's cells.
Cells(board) == UNION {ToSet(board[r]) : r \in 1..Len(board)}

\* A 5 x 5 board of capital letters.
Classic(board) == Len(board) = 5 /\ Cells(board) \subseteq 65..90

\* The text as the claim normalizes it: in classic mode J becomes I and the
\* text is upper-cased; the characters off the board are dropped; an X is put
\* after the first of two equal characters of a digraph and after a last
\* character left alone.
RECURSIVE WithFillers(_)
WithFillers(t) ==
    IF Len(t) = 0 THEN <<>>
    ELSE IF Len(t) = 1 THEN <<t[1], 88>>
    ELSE IF t[1] = t[2] THEN <<t[1], 88>> \o WithFillers(Tail(t))
    ELSE <<t[1], t[2]>> \o WithFillers(Tail(Tail(t)))

Normalized(text, board) ==
    LET t == IF Classic(board)
             THEN upper([i \in 1..Len(text) |-> IF text[i] = 74 THEN 73 ELSE text[i]])
             ELSE text
    IN  WithFillers(SelectSeq(t, LAMBDA c : c \in Cells(board)))

PfRoundTripDone == last.fn = "playfair.decrypt_text"

\* C3: for every board built by read_board_from_file, classic or extended,
\* and every text, decrypt_text(encrypt_text(T, board), board) returns the
\* normalization of T.
C3_PlayfairRoundTrip ==
    PfRoundTripDone =>
        /\ last.err = "none"
        /\ last.ret = Normalized(read_text(fs, "in"), PfBoard.val)

\* What holds of C3: the round trip returns the normalization of T on the
\* boards that hold the filler X (every classic board among them).
C3_RoundTripWithFiller ==
    (PfRoundTripDone /\ 88 \in Cells(PfBoard.val)) =>
        /\ last.err = "none"
        /\ last.ret = Normalized(read_text(fs, "in"), PfBoard.val)

\* A round trip on an extended board with X that had to split a double.
C3_Witness ==
    /\ PfRoundTripDone /\ last.err = "none"
    /\ ~Classic(PfBoard.val) /\ 88 \in Cells(PfBoard.val)
    /\ Len(last.ret) = 4 /\ last.ret[1] = last.ret[3]

\* A round trip on a board without X that ends in an IndexError.
C3_IndexError ==
    PfRoundTripDone /\ last.err = "IndexError"

\* A round trip on a board without X that returns another text.
C3_WrongText ==
    /\ PfRoundTripDone /\ last.err = "none"
    /\ last.ret # Normalized(read_text(fs, "in"), PfBoard.val)

(***************************************************************************)
(* The four codecs' file calls together, on files that make them fail at   *)
(* every stage and files that let them succeed.                            *)
(***************************************************************************)
PfEncryptFile ==
    LET r == pf_encrypt_file(fs, "in", "enc", "board")
    IN  /\ fs' = r.files
        /\ last' = Called("playfair.encrypt_file", "in", "enc", r)

PfDecryptFile ==
    \E src \in {"in", "enc"} :
        LET r == pf_decrypt_file(fs, src, "dec", "board")
        IN  /\ fs' = r.files
            /\ last' = Called("playfair.decrypt_file", src, "dec", r)

\* The output paths: absent, or holding an earlier content.
Outputs == {[p \in {} |-> Missing], [enc |-> File(OldContent), dec |-> File(OldContent)]}

WithFiles(f, g) == Files([p \in DOMAIN f \cup DOMAIN g |-> IF p \in DOMAIN f THEN f[p] ELSE g[p]])

BlockInputs == {Missing, File(<<>>), File(Ramp(65, 1, 10)), File(Ramp(114, 1, 8)),
                File(Ramp(65, 1, 16)), File(Ramp(250, 3, 32))}

\* A missing table, a table that is no square, one whose rows differ in
\* their characters, and accepted tables under a missing, an empty and a
\* usable key.
TableAndKeyFiles ==
    { [vkey |-> File(<<65>>)],
      [table |-> File(<<65, 66, 10, 66, 10>>), vkey |-> File(<<65>>)],
      [table |-> File(<<65, 66, 10, 66, 67, 10>>), vkey |-> File(<<65>>)],
      [table |-> File(<<65, 66, 10, 66, 65, 10>>)],
      [table |-> File(<<65, 66, 10, 66, 65, 10>>), vkey |-> File(<<49, 10>>)],
      [table |-> File(<<65, 66, 10, 66, 65, 10>>), vkey |-> File(<<66, 65>>)] }

TextInputs == {Missing, File(<<97>>), File(<<65, 98, 32, 66>>)}

\* "Hi", "I1a" and "KEYS" for the Playfair calls.
PfTextInputs == {File(<<72, 105>>), File(<<73, 49, 97>>), File(<<75, 69, 89, 83>>)}

Init ==
    /\ \/ \E k \in DataKeyFiles, m \in BlockInputs, o \in Outputs :
             fs = WithFiles([key |-> k, in |-> m], o)
       \/ \E t \in TableAndKeyFiles, x \in TextInputs, o \in Outputs :
             fs = WithFiles([table |-> IF "table" \in DOMAIN t THEN t.table ELSE Missing,
                             vkey |-> IF "vkey" \in DOMAIN t THEN t.vkey ELSE Missing,
                             in |-> x], o)
       \/ \E b \in {Missing, File(<<75, 69, 89, 10>>), File(<<97, 98, 49, 33>>)},
             x \in TextInputs \cup PfTextInputs, o \in Outputs :
             fs = WithFiles([board |-> b, in |-> x], o)
    /\ last = NoCall

Next ==
    \/ AesEncryptFile
    \/ AesDecryptFile
    \/ DesEncryptFile
    \/ DesDecryptFile
    \/ VigEncryptFile
    \/ VigDecryptFile
    \/ PfEncryptFile
    \/ PfDecryptFile

Spec == Init /\ [][Next]_vars

\* C4: in all four codecs a call of encrypt_file or decrypt_file that fails
\* (missing key, table or board file, invalid key length, malformed or
\* inconsistent table, empty key, invalid padding, or any other failure of
\* loading, reading or transforming) leaves every file as it was: the output
\* path is neither created nor modified.
C4_OutputUntouchedOnFailure ==
    [][last'.err # "none" => fs' = fs]_vars

\* A decryption refused for its padding next to an output written earlier.
C4_Witness ==
    /\ last.fn = "aes.decrypt_file" /\ last.err = "InvalidPadding"
    /\ fs["dec"] = File(OldContent)

(***************************************************************************)
(* What the further claims say of the Vigenere table and key.              *)
(***************************************************************************)
TableRead == last.fn = "vigenere.read_table_from_file"

C11_WholeRanges ==
    /\ TableRead /\ last.err = "none"
    /\ ToSet(last.ret[1]) \in {65..90, 33..126}

VigFileCall == last.fn \in {"vigenere.encrypt_file", "vigenere.decrypt_file"}

\* The table file holds rows that do not form a square.
TableNotSquare ==
    LET rows == NonBlankLines(read_text(fs, "table"))
    IN  /\ fs["table"].exists /\ Len(rows) >= 1
        /\ \E i \in 1..Len(rows) : Len(rows[i]) # Len(rows)

\* C12: Vigenere encrypt_file and decrypt_file load and validate the table
\* before they go to the key file: with a table that is not square the call
\* fails with the square-table error and has gone to the table path only,
\* whatever the key path holds (a missing, an empty or a usable key).
C12_TableBeforeKey ==
    (VigFileCall /\ TableNotSquare) =>
        /\ last.err = "MalformedTable"
        /\ last.ret = <<"table">>

\* decrypt_file refused for a table of 94 columns and 93 rows, next to a
\* missing key file.
C12_Witness ==
    /\ last.fn = "vigenere.decrypt_file" /\ last.err = "MalformedTable"
    /\ fs["table"] = ShiftTableFile(33, 94, 93)
    /\ ~fs["vkey"].exists

\* The same refusal of encrypt_file next to an empty key file.
C12_EmptyKey ==
    /\ last.fn = "vigenere.encrypt_file" /\ last.err = "MalformedTable"
    /\ fs["table"] = ShiftTableFile(33, 94, 93)
    /\ fs["vkey"] = File(<<>>)

(***************************************************************************)
(* What the further claims say of the Playfair board.                      *)
(***************************************************************************)
BoardRead == last.fn = "playfair.read_board_from_file"

\* The board file holds nothing but white space.
NoUsableCharacters ==
    /\ fs["board"].exists
    /\ \A i \in 1..Len(fs["board"].data) : fs["board"].data[i] \in Whitespace

\* C13 as stated: read_board_from_file fails with the not-found failure
\* (FileNotFoundError) when the path does not exist and with the empty-table
\* failure (ValueError) when the file holds no usable character; it returns no
\* board then.
C13_AsStated ==
    BoardRead =>
        /\ ~fs["board"].exists => last.err = "BoardNotFound"
        /\ NoUsableCharacters => last.err = "NoUsableCharacters"

\* What holds of C13: a missing path fails with the not-found failure, and a
\* file without usable characters is read as the board of A-Z without J in
\* alphabetical order.
C13_EmptyBoardFile ==
    BoardRead =>
        /\ ~fs["board"].exists => (last.err = "BoardNotFound" /\ last.ret = <<>>)
        /\ NoUsableCharacters =>
              /\ last.err = "none"
              /\ last.ret = << <<65, 66, 67, 68, 69>>, <<70, 71, 72, 73, 75>>,
                               <<76, 77, 78, 79, 80>>, <<81, 82, 83, 84, 85>>,
                               <<86, 87, 88, 89, 90>> >>

\* A board returned for a file of white space.
C13_Witness ==
    /\ BoardRead /\ last.err = "none"
    /\ NoUsableCharacters /\ Len(fs["board"].data) = 4

\* The not-found failure for a missing board file.
C13_NotFound ==
    BoardRead /\ last.err = "BoardNotFound"

(***************************************************************************)
(* gui.py: run_cipher and run_vigenere, the calls behind the "run" button. *)
(* An entry widget holds a text between pad spaces on either side; a       *)
(* widget may be absent.                                                   *)
(***************************************************************************)
Entry(text, pad) == [widget |-> TRUE, text |-> text, pad |-> pad]

NoWidget == [widget |-> FALSE, text |-> "", pad |-> 0]

\* entry.get().strip(): the text without the spaces around it.
get_strip(entry) == entry.text

\* What a run leaves: the failure shown (or "none"), the files, and the codec
\* functions it called.
Ran(err, files, called) == [err |-> err, files |-> files, called |-> called]

\* module_map = {"AES": aes, "DES": des, "Playfair": playfair}
module_map == {"AES", "DES", "Playfair"}

module_name(cipher_type) ==
    CASE cipher_type = "AES" -> "aes"
      [] cipher_type = "DES" -> "des"
      [] cipher_type = "Playfair" -> "playfair"

module_encrypt_file(cipher_type, files, input_path, output_path, key, iv) ==
    CASE cipher_type = "AES" -> aes_encrypt_file(files, input_path, output_path, key, iv)
      [] cipher_type = "DES" -> des_encrypt_file(files, input_path, output_path, key)
      [] cipher_type = "Playfair" -> pf_encrypt_file(files, input_path, output_path, key)

module_decrypt_file(cipher_type, files, input_path, output_path, key) ==
    CASE cipher_type = "AES" -> aes_decrypt_file(files, input_path, output_path, key)
      [] cipher_type = "DES" -> des_decrypt_file(files, input_path, output_path, key)
      [] cipher_type = "Playfair" -> pf_decrypt_file(files, input_path, output_path, key)

\* Mutant: an action that is neither "encrypt" nor "decrypt" is refused.
run_cipher_checking_action(files, cipher_type, key_entry, input_entry, output_entry,
                           action, iv) ==
    LET key == IF key_entry.widget THEN get_strip(key_entry) ELSE ""
        input_path == get_strip(input_entry)
        output_path == get_strip(output_entry)
    IN  IF key = "" \/ input_path = "" \/ output_path = ""
               \/ action \notin {"encrypt", "decrypt"}
        THEN Ran("MissingField", files, <<>>)
        ELSE IF cipher_type \notin module_map THEN Ran("UnknownCipher", files, <<>>)
        ELSE IF action = "encrypt"
        THEN LET r == module_encrypt_file(cipher_type, files, input_path, output_path,
                                          key, iv)
             IN  r @@ [called |-> <<module_name(cipher_type), "encrypt_file">>]
        ELSE LET r == module_decrypt_file(cipher_type, files, input_path, output_path, key)
             IN  r @@ [called |-> <<module_name(cipher_type), "decrypt_file">>]

run_cipher(files, cipher_type, key_entry, input_entry, output_entry, action, iv) ==
    LET key == IF key_entry.widget THEN get_strip(key_entry) ELSE ""
        input_path == get_strip(input_entry)
        output_path == get_strip(output_entry)
    IN  IF key = "" \/ input_path = "" \/ output_path = ""
        THEN Ran("MissingField", files, <<>>)
        ELSE IF cipher_type \notin module_map THEN Ran("UnknownCipher", files, <<>>)
        ELSE IF action = "encrypt"
        THEN LET r == module_encrypt_file(cipher_type, files, input_path, output_path,
                                          key, iv)
             IN  r @@ [called |-> <<module_name(cipher_type), "encrypt_file">>]
        ELSE LET r == module_decrypt_file(cipher_type, files, input_path, output_path, key)
             IN  r @@ [called |-> <<module_name(cipher_type), "decrypt_file">>]

run_vigenere(files, table_entry, key_entry, input_entry, output_entry, action) ==
    IF ~table_entry.widget \/ ~key_entry.widget
    THEN Ran("WidgetsNotInitialized", files, <<>>)
    ELSE LET tabela_path == get_strip(table_entry)
             chave_path == get_strip(key_entry)
             input_path == get_strip(input_entry)
             output_path == get_strip(output_entry)
         IN  IF tabela_path = "" \/ chave_path = "" \/ input_path = "" \/ output_path = ""
             THEN Ran("MissingField", files, <<>>)
             ELSE IF action = "encrypt"
             THEN LET r == vig_encrypt_file(files, input_path, output_path,
                                            tabela_path, chave_path)
                  IN  [err |-> r.err, files |-> r.files,
                       called |-> <<"vigenere", "encrypt_file">>]
             ELSE LET r == vig_decrypt_file(files, input_path, output_path,
                                            tabela_path, chave_path)
                  IN  [err |-> r.err, files |-> r.files,
                       called |-> <<"vigenere", "decrypt_file">>]

(***************************************************************************)
(* The runs: what the entries and the action variable may hold.            *)
(***************************************************************************)
CipherTypes == {"AES", "DES", "Playfair", "Vigenere"}

Actions == {"encrypt", "decrypt", ""}

KeyEntries == {NoWidget, Entry("", 1), Entry("key", 1)}

TableEntries == {NoWidget, Entry("", 0), Entry("table", 1)}

VigKeyEntries == {Entry("", 1), Entry("vkey", 0)}

InputEntries == {Entry("", 0), Entry("in", 1)}

OutputEntries == {Entry("", 1), Entry("dec", 0)}

\* A key file that is a 16-byte key for AES and the letters of a board for
\* Playfair; a table and a key for Vigenere.
InitFacade ==
    /\ fs = Files([key |-> File(KeyText("raw", 16)),
                   table |-> File(<<65, 66, 10, 66, 65, 10>>),
                   vkey |-> File(<<66, 65>>), in |-> File(<<65, 98, 66>>)])
    /\ last = NoCall

\* The forms tried: every field filled, or one of them left out.
OneLeftOut(entries) == Cardinality({i \in 1..Len(entries) : get_strip(entries[i]) = ""}) <= 1

\* aes.encrypt_file alone draws an IV.
DrawnIVs(cipher_type, action) ==
    IF cipher_type = "AES" /\ action = "encrypt" THEN IVs ELSE {<<>>}

RunCipher ==
    \E cipher_type \in CipherTypes, key_entry \in KeyEntries, input_entry \in InputEntries,
       output_entry \in OutputEntries, action \in Actions :
        \E iv \in DrawnIVs(cipher_type, action) :
            \E r \in {run_cipher(fs, cipher_type, key_entry, input_entry, output_entry,
                                  action, iv)} :
                /\ OneLeftOut(<<key_entry, input_entry, output_entry>>)
                /\ fs' = r.files
                /\ last' = [fn |-> "gui.run_cipher",
                            inp |-> [cipher_type |-> cipher_type, key |-> key_entry,
                                     input |-> input_entry, output |-> output_entry,
                                     action |-> action],
                            out |-> get_strip(output_entry), err |-> r.err,
                            ret |-> r.called]

RunVigenere ==
    \E table_entry \in TableEntries, key_entry \in VigKeyEntries,
       input_entry \in InputEntries, output_entry \in OutputEntries, action \in Actions :
        \E r \in {run_vigenere(fs, table_entry, key_entry, input_entry, output_entry,
                                action)} :
            /\ OneLeftOut(<<table_entry, key_entry, input_entry, output_entry>>)
            /\ fs' = r.files
            /\ last' = [fn |-> "gui.run_vigenere",
                        inp |-> [table |-> table_entry, key |-> key_entry,
                                 input |-> input_entry, output |-> output_entry,
                                 action |-> action],
                        out |-> get_strip(output_entry), err |-> r.err, ret |-> r.called]

NextFacade == RunCipher \/ RunVigenere

SpecFacade == InitFacade /\ [][NextFacade]_vars


(***************************************************************************)
(* Facade claims.                                                          *)
(***************************************************************************)
FacadeRun == last.fn \in {"gui.run_cipher", "gui.run_vigenere"}

\* The path fields of the run, the widgets being there.
PathFields ==
    IF last.fn = "gui.run_cipher"
    THEN <<last.inp.key, last.inp.input, last.inp.output>>
    ELSE <<last.inp.table, last.inp.key, last.inp.input, last.inp.output>>

WidgetsThere ==
    last.fn = "gui.run_vigenere" => last.inp.table.widget /\ last.inp.key.widget

PathFieldEmpty == \E i \in 1..Len(PathFields) : get_strip(PathFields[i]) = ""

Refused(err) == last.err = err /\ last.ret = <<>>

C14_UnknownCipher ==
    /\ last.fn = "gui.run_cipher" /\ ~PathFieldEmpty
    /\ last.inp.cipher_type = "Vigenere"
    /\ Refused("UnknownCipher")

\* An empty action with every path filled: decrypt_file ran and wrote.
C14_EmptyAction ==
    /\ FacadeRun /\ ~PathFieldEmpty
    /\ last.inp.action = ""
    /\ Len(last.ret) = 2 /\ last.ret[2] = "decrypt_file"
    /\ last.err = "none"
    /\ isfile(fs, "dec")

(***************************************************************************)
(* Failures of the decrypting calls.                                       *)
(***************************************************************************)
\* The failures the taxonomy names.
TypedFailures ==
    {"KeyNotFound", "TableNotFound", "BoardNotFound", "InvalidKeyLength",
     "InvalidPadding", "MalformedTable", "InconsistentTable", "EmptyKey",
     "NoUsableCharacters"}

\* A decrypt_file call of a block codec with a usable key on a file that exists.
AesDecryptsFile ==
    /\ last.fn = "aes.decrypt_file"
    /\ isfile(fs, "key") /\ aes_read_key_file(fs, "key").err = "none"
    /\ isfile(fs, last.inp)

DesDecryptsFile ==
    /\ last.fn = "des.decrypt_file"
    /\ isfile(fs, "key") /\ des_read_key_file(fs, "key").err = "none"
    /\ isfile(fs, last.inp)

\* A Playfair decrypt_file call that reaches decrypt_text.
PfDecryptsText ==
    /\ last.fn = "playfair.decrypt_file"
    /\ read_board_from_file(fs, "board").err = "none"
    /\ isfile(fs, last.inp)

\* The characters of the input that are on the board, as decrypt_text keeps
\* them: on a board of 25 capital letters after uppercasing and J to I.
OnBoard(text, board) ==
    LET flat == board_flat(board)
        known(c) == \E k \in 1..Len(flat) : flat[k] = c
        classic == Len(flat) = 25 /\ \A k \in 1..Len(flat) : flat[k] \in 65..90
        seen(c) == IF classic
                   THEN LET u == IF c \in 97..122 THEN c - 32 ELSE c
                        IN  IF u = 74 THEN 73 ELSE u
                   ELSE c
    IN  Cardinality({k \in 1..Len(text) : known(seen(text[k]))})

\* C15 as stated: with a valid key, decrypt_file of a block codec on any
\* content of the input file succeeds or fails with InvalidPadding, and
\* Playfair's decrypt_text on any text succeeds or fails with a typed failure.
C15_AsStated ==
    /\ (AesDecryptsFile \/ DesDecryptsFile) => last.err \in {"none", "InvalidPadding"}
    /\ PfDecryptsText => last.err \in {"none"} \cup TypedFailures

\* C15, what the calls do: aes.decrypt_file fails with the library's
\* ValueError on an input shorter than the IV or with a body that is no
\* whole number of blocks and with IndexError on an input of the IV alone;
\* des.decrypt_file fails with IndexError on an empty input and with the
\* library's ValueError on one that is no whole number of blocks; on every
\* other input both succeed or fail with InvalidPadding; Playfair's
\* decrypt_text fails with IndexError exactly on a text with an odd number of
\* board characters.
C15_DecryptFailures ==
    /\ AesDecryptsFile =>
         LET n == Len(fs[last.inp].data)
         IN  last.err = CASE n < 16 -> "IncorrectIVLength"
                          [] n = 16 -> "IndexError"
                          [] n > 16 /\ n % 16 # 0 -> "DataNotAligned"
                          [] OTHER -> IF last.err = "none" THEN "none"
                                      ELSE "InvalidPadding"
    /\ DesDecryptsFile =>
         LET n == Len(fs[last.inp].data)
         IN  last.err = CASE n = 0 -> "IndexError"
                          [] n % 8 # 0 -> "DataNotAligned"
                          [] OTHER -> IF last.err = "none" THEN "none"
                                      ELSE "InvalidPadding"
    /\ PfDecryptsText =>
         last.err = IF OnBoard(read_text(fs, last.inp),
                               read_board_from_file(fs, "board").val) % 2 = 1
                    THEN "IndexError" ELSE "none"

\* aes.decrypt_file on a file that holds the IV and nothing after it.
C15_Witness ==
    /\ AesDecryptsFile
    /\ Len(fs[last.inp].data) = 16
    /\ last.err = "IndexError"

\* des.decrypt_file on an empty file.
C15_DesEmptyFile ==
    /\ DesDecryptsFile /\ fs[last.inp].data = <<>> /\ last.err = "IndexError"

\* aes.decrypt_file on an empty file.
C15_AesEmptyFile ==
    /\ AesDecryptsFile /\ fs[last.inp].data = <<>> /\ last.err = "IncorrectIVLength"

\* Playfair's decrypt_text on a text with one board character.
C15_PfOddText ==
    /\ PfDecryptsText /\ last.err = "IndexError"

\* A refused padding and a decryption that succeeded.
C15_InvalidPadding ==
    (AesDecryptsFile \/ DesDecryptsFile) /\ last.err = "InvalidPadding"

C15_Decrypted ==
    (AesDecryptsFile \/ DesDecryptsFile) /\ last.err = "none"

(***************************************************************************)
(* What the claims say of the board read_board_from_file builds.           *)
(***************************************************************************)
BoardFileText == fs["board"].data

\* The board file holds letters and line ends only.
MadeOfLetters ==
    /\ fs["board"].exists
    /\ \A i \in 1..Len(BoardFileText) : is_letter(BoardFileText[i]) \/ BoardFileText[i] \in {10, 13}

\* A letter as the classic board holds it: a capital, I for J.
AsCapital(c) ==
    LET u == IF c \in 97..122 THEN c - 32 ELSE c
    IN  IF u = 74 THEN 73 ELSE u

\* Where a cell's letter is first seen in the file, 0 if it is not there.
FirstSeenAt(cell) ==
    LET at == {i \in 1..Len(BoardFileText) :
                  is_letter(BoardFileText[i]) /\ AsCapital(BoardFileText[i]) = cell}
    IN  IF at = {} THEN 0 ELSE CHOOSE i \in at : \A j \in at : i <= j

FlatBoard == Concat(last.ret)

C16_EveryLetter ==
    /\ BoardRead /\ MadeOfLetters /\ Len(BoardFileText) = 27
    /\ last.ret[2] = <<70, 71, 72, 73, 75>>

\* The distinct characters the reading observes in the file.
Observed == ToSet(Concat(board_lines(read_text(fs, "board"))))

AllLetters == \A c \in Observed : is_letter(c)

BoardReturned == BoardRead /\ fs["board"].exists /\ last.err = "none"

\* C17 as stated: read_board_from_file builds the classic 5 x 5 board exactly
\* when all distinct characters observed in the file are letters and they are
\* at most 25; in every other case it builds an extended board.
C17_AsStated ==
    BoardReturned =>
        (Classic(last.ret) <=> (AllLetters /\ Cardinality(Observed) <= 25))

\* C17, what the code decides on: read_board_from_file builds the classic
\* 5 x 5 board exactly when all characters observed are letters, however many
\* they are, and an extended board holding every observed character otherwise.
C17_LettersDecide ==
    BoardReturned =>
        /\ Classic(last.ret) <=> AllLetters
        /\ ~AllLetters => Observed \subseteq Cells(last.ret)

\* The small letters a-z and "A", 27 different letters, read as the classic board.
C17_Witness ==
    /\ BoardReturned /\ AllLetters
    /\ Cardinality(Observed) = 27
    /\ Classic(last.ret)

\* A file with a character that is no letter, read as an extended board.
C17_Extended ==
    /\ BoardReturned /\ ~AllLetters
    /\ Len(last.ret) = 2 /\ 49 \in Cells(last.ret)

\* The characters observed, in the order the reading meets them.
ObservedText == Concat(board_lines(read_text(fs, "board")))

\* Where c is first met in text, 0 if it is not there.
FirstAt(c, text) ==
    LET at == {i \in 1..Len(text) : text[i] = c}
    IN  IF at = {} THEN 0 ELSE CHOOSE i \in at : \A j \in at : i <= j

\* The smallest n with n * n >= k.
SquareSide(k) == CHOOSE n \in 1..k : n * n >= k /\ (n - 1) * (n - 1) < k

\* The code points 33..125 the file does not use.
Unused == (33..125) \ Observed

\* The cells hold the observed characters in first-seen order, then unused
\* code points of 33..125 in ascending order, none left out before one taken.
CellsInOrder(flat) ==
    \E text \in {ObservedText} : \E spare \in {(33..125) \ ToSet(text)} :
        LET k == Cardinality(ToSet(text))
        IN  /\ Len(flat) >= k
            /\ \A i \in 1..k : FirstAt(flat[i], text) # 0
            /\ \A i \in 1..(k - 1) : FirstAt(flat[i], text) < FirstAt(flat[i + 1], text)
            /\ \A i \in (k + 1)..Len(flat) : flat[i] \in spare
            /\ \A i \in (k + 1)..(Len(flat) - 1) : flat[i] < flat[i + 1]
            /\ \A c \in spare : (Len(flat) > k /\ c < flat[Len(flat)]) => c \in ToSet(flat)

\* C18 as stated: for every board file with a character that is no letter
\* read_board_from_file returns n rows of n cells, n at least the ceiling of
\* the square root of the number of distinct characters; the cells hold every
\* distinct file character once, in first-seen order, then unused code points
\* of 33..125 in ascending order, and no character twice.
C18_AsStated ==
    (BoardReturned /\ ~AllLetters) =>
        /\ Len(last.ret) >= SquareSide(Cardinality(Observed))
        /\ \A r \in 1..Len(last.ret) : Len(last.ret[r]) = Len(last.ret)
        /\ \E flat \in {FlatBoard} : CellsInOrder(flat)

\* C18, what the code builds: n rows, n the ceiling of the square root of the
\* number of distinct characters and never grown; the cells hold every
\* distinct file character once, in first-seen order, then unused code points
\* of 33..125 in ascending order; they are n * n when enough code points are
\* unused, and otherwise only the observed characters and all unused code
\* points, the last rows being short or empty.
C18_ExtendedBoard ==
    (BoardReturned /\ ~AllLetters) =>
        LET k == Cardinality(Observed)
            n == SquareSide(k)
            cells == IF n * n - k <= Cardinality(Unused) THEN n * n
                     ELSE k + Cardinality(Unused)
        IN  /\ Len(last.ret) = n
            /\ Len(FlatBoard) = cells
            /\ \A r \in 1..n : Len(last.ret[r]) = Max(0, Min(n, cells - (r - 1) * n))
            /\ \E flat \in {FlatBoard} : CellsInOrder(flat)

\* The characters 33..114 read as ten rows, the last of three cells.
C18_Witness ==
    /\ BoardReturned /\ Cardinality(Observed) = 82
    /\ Len(last.ret) = 10 /\ Len(last.ret[10]) = 3

\* "123" / "45" read as three rows of three cells, filled with ! " # $.
C18_Filled ==
    /\ BoardReturned
    /\ last.ret = << <<49, 50, 51>>, <<52, 53, 33>>, <<34, 35, 36>> >>

(***************************************************************************)
(* What the claims say of fix_message and process_pair.                    *)
(***************************************************************************)
MessageFixed == last.fn = "playfair.fix_message"

MessageFixedByDefault == last.fn = "test_playfair_ascii.fix_message"

Message == read_text(fs, "in")

\* The capital of a character, I for J.
CapitalIJ(c) ==
    LET u == IF c \in 97..122 THEN c - 32 ELSE c
    IN  IF u = 74 THEN 73 ELSE u

\* The message upper-cased with I for J, its characters A-Z only.
ClaimedLetters(text) ==
    SelectSeq([i \in 1..Len(text) |-> CapitalIJ(text[i])], LAMBDA c : c \in 65..90)

\* C19 as stated: fix_message first filters the message (classic and default
\* mode: upper-cased, I for J, only A-Z kept; extended mode: exactly the
\* board's characters), then pairs from left to right, putting the filler X
\* after a character whose successor equals it and after an unpaired last one.
C19_AsStated ==
    /\ MessageFixedByDefault => last.ret = WithFillers(ClaimedLetters(Message))
    /\ MessageFixed =>
         last.ret = WithFillers(IF Classic(PfBoard.val) THEN ClaimedLetters(Message)
                                ELSE SelectSeq(Message, LAMBDA c : c \in Cells(PfBoard.val)))

\* C19, what fix_message does: in default mode the message is upper-cased,
\* J becomes I and A-Z is kept; with a classic board the capital J becomes I
\* before the upper-casing and the board's letters are kept, so that a small j
\* is dropped; with an extended board exactly the board's characters are kept;
\* then the pairing with the filler X as claimed, the output of even length.
C19_FixMessage ==
    /\ MessageFixedByDefault => last.ret = WithFillers(ClaimedLetters(Message))
    /\ MessageFixed =>
         /\ last.ret = WithFillers(
                IF Classic(PfBoard.val)
                THEN ClaimedLetters(SelectSeq(Message, LAMBDA c : c # 106))
                ELSE SelectSeq(Message, LAMBDA c : c \in Cells(PfBoard.val)))
    /\ (MessageFixed \/ MessageFixedByDefault) => Len(last.ret) % 2 = 0

\* "HELLO WORLD" with a classic board: HE LX LO WO RL DX.
C19_Witness ==
    /\ MessageFixed /\ Classic(PfBoard.val)
    /\ Message = <<72, 69, 76, 76, 79, 32, 87, 79, 82, 76, 68>>
    /\ last.ret = <<72, 69, 76, 88, 76, 79, 87, 79, 82, 76, 68, 88>>

\* "jazz" with a classic board: AZ ZX, the j dropped.
C19_SmallJ ==
    /\ MessageFixed /\ Classic(PfBoard.val)
    /\ Message = <<106, 97, 122, 122>>
    /\ last.ret = <<65, 90, 90, 88>>

\* "jazz" in default mode: IA ZX ZX.
C19_SmallJByDefault ==
    /\ MessageFixedByDefault
    /\ Message = <<106, 97, 122, 122>>
    /\ last.ret = <<73, 65, 90, 88, 90, 88>>

\* A message kept as it is with an extended board.
C19_Extended ==
    /\ MessageFixed /\ ~Classic(PfBoard.val)
    /\ 97 \in ToSet(last.ret)

PairProcessed == last.fn = "playfair.process_pair"

\* The character looked up for c: on a classic board its capital, I for J.
LookedUp(board, c) == IF Classic(board) THEN CapitalIJ(c) ELSE c

\* The <<row, column>> pairs of the cells holding c, from 0 as the code counts.
Places(board, c) ==
    {p \in (0..(Len(board) - 1)) \X (0..(Len(board) - 1)) :
        board[p[1] + 1][p[2] + 1] = LookedUp(board, c)}

At(board, row, col) == board[row + 1][col + 1]

\* One step forward for "encrypt", one back for "decrypt".
Step(mode) == IF mode = "encrypt" THEN 1 ELSE -1

C20_RowWrap ==
    /\ PairProcessed /\ ~Classic(PfBoard.val) /\ last.inp.mode = "decrypt"
    /\ last.inp = [a |-> 97, b |-> 88, mode |-> "decrypt"]
    /\ last.ret = <<88, 97>>

\* A pair of one column, moved down.
C20_Column ==
    /\ PairProcessed /\ Classic(PfBoard.val) /\ last.inp.mode = "encrypt"
    /\ last.inp.a = 65 /\ last.inp.b = 70 /\ PfBoard.val[2][1] = 70
    /\ last.ret = <<70, 76>>

\* A pair with a character off the board, returned as it is.
C20_Unchanged ==
    /\ PairProcessed /\ last.inp.b = 49 /\ Places(PfBoard.val, 49) = {}
    /\ last.ret = <<last.inp.a, 49>>

PairProcessedAgain == last.fn = "playfair.process_pair.again"

\* Where the character c itself is a cell of the board.
Cell(board, c) ==
    {p \in (0..(Len(board) - 1)) \X (0..(Len(board) - 1)) : board[p[1] + 1][p[2] + 1] = c}

\* a and b are cells of different rows and different columns.
Rectangle(board, a, b) ==
    \E p \in Cell(board, a), q \in Cell(board, b) : p[1] # q[1] /\ p[2] # q[2]

\* C21: for every square board with distinct cells and every pair a, b of
\* characters present on it (a = b included) process_pair in decrypt mode
\* applied to the result of process_pair in encrypt mode returns a, b; in the
\* rectangle case both modes return the same pair and applying either twice
\* returns a, b.
C21_PairRoundTrip ==
    PairProcessedAgain =>
        \E board \in {PfBoard.val} :
            LET a == last.inp.a
                b == last.inp.b
            IN  (Cell(board, a) # {} /\ Cell(board, b) # {}) =>
                   /\ last.inp.mode = "decrypt" => last.ret = <<a, b>>
                   /\ Rectangle(board, a, b) =>
                         /\ last.ret = <<a, b>>
                         /\ last.inp.pair = process_pair(board, a, b, "decrypt")

\* A and F of one row of the board "PLAYF" / "IREXM", moved right and back.
C21_Witness ==
    /\ PairProcessedAgain /\ last.inp.mode = "decrypt"
    /\ PfBoard.val[1] = <<80, 76, 65, 89, 70>>
    /\ last.inp.a = 65 /\ last.inp.b = 70
    /\ last.inp.pair = <<89, 80>>
    /\ last.ret = <<65, 70>>

\* A rectangle pair, encrypted twice.
C21_RectangleTwice ==
    /\ PairProcessedAgain /\ last.inp.mode = "encrypt"
    /\ Rectangle(PfBoard.val, last.inp.a, last.inp.b)
    /\ last.inp.pair # <<last.inp.a, last.inp.b>>
    /\ last.ret = <<last.inp.a, last.inp.b>>

\* A pair of one character twice, on an extended board.
C21_SameCharacter ==
    /\ PairProcessedAgain /\ last.inp.mode = "decrypt" /\ ~Classic(PfBoard.val)
    /\ last.inp.a = 88 /\ last.inp.b = 88
    /\ last.inp.pair # <<88, 88>>
    /\ last.ret = <<88, 88>>

(***************************************************************************)
(* What the claims say of the Vigenere text transformation.                *)
(***************************************************************************)
TextEncrypted == last.fn = "vigenere.process_text.encrypt"

\* index(c): where the charset, row 0 of the table, holds c.
IndexOf(charset, c) == CHOOSE i \in 1..Len(charset) : charset[i] = c

\* The table of A-Z whose row r is the alphabet shifted by r.
ShiftedAlphabet(table) ==
    /\ Len(table) = 26
    /\ \A r \in 1..26 : \A c \in 1..26 : table[r][c] = 65 + (((r - 1) + (c - 1)) % 26)

C22_Dropped ==
    /\ TextEncrypted
    /\ ~is_upper_charset(VigTable.val[1])
    /\ Len(last.ret) > 1 /\ Len(last.ret) < Len(read_text(fs, "in"))

\* encrypt_file called in classic mode, the table's charset being capital
\* letters, with a key file and an input file.
ClassicFileEncrypted ==
    /\ last.fn = "vigenere.encrypt_file"
    /\ VigTable.err = "none" /\ is_upper_charset(VigTable.val[1])
    /\ isfile(fs, "vkey") /\ isfile(fs, "in")

\* The characters of text that the charset holds.
InCharset(text, charset) ==
    SelectSeq(text, LAMBDA c : \E i \in 1..Len(charset) : charset[i] = c)

\* The ciphertext of the kept characters under a key, by the table.
CipherUnder(key, kept, table) ==
    [i \in 1..Len(kept) |->
        table[IndexOf(table[1], key[((i - 1) % Len(key)) + 1])][IndexOf(table[1], kept[i])]]

\* What encrypt_file leaves when the key stream is key: a failure for an
\* empty one, else the ciphertext under it in the output file.
LeftUnder(key) ==
    \E table \in {VigTable.val} :
        IF key = <<>> THEN last.err = "EmptyKey"
        ELSE /\ last.err = "none"
             /\ fs["enc"].data = CipherUnder(key, InCharset(upper(read_text(fs, "in")), table[1]),
                                             table)

\* C23 as stated: in classic mode the input text and the running key are both
\* upper-cased before being filtered to the charset, so that a key file in
\* small letters gives the key stream and the ciphertext of the same key in
\* capitals.
C23_AsStated ==
    ClassicFileEncrypted =>
        LeftUnder(InCharset(upper(read_text(fs, "vkey")), VigTable.val[1]))

\* C23, what the code does: in classic mode the input text is upper-cased
\* before being filtered, the key is filtered as it is written, so that its
\* small letters are dropped and a key file of small letters only is refused
\* as empty.
C23_KeyAsWritten ==
    ClassicFileEncrypted =>
        LeftUnder(InCharset(read_text(fs, "vkey"), VigTable.val[1]))

\* The key file "Key 1": ATTACKATDAWN encrypted under K alone.
C23_Witness ==
    /\ ClassicFileEncrypted /\ ShiftedAlphabet(VigTable.val)
    /\ read_text(fs, "vkey") = <<75, 101, 121, 32, 49>>
    /\ read_text(fs, "in") = <<65, 84, 84, 65, 67, 75, 65, 84, 68, 65, 87, 78>>
    /\ fs["enc"].data = <<75, 68, 68, 75, 77, 85, 75, 68, 78, 75, 71, 88>>

\* The key file "key", refused as empty.
C23_SmallKeyRefused ==
    /\ ClassicFileEncrypted
    /\ read_text(fs, "vkey") = <<107, 101, 121>>
    /\ last.err = "EmptyKey"

\* A text in small letters encrypted as its capitals under the key KEY.
C23_SmallText ==
    /\ ClassicFileEncrypted /\ last.err = "none"
    /\ read_text(fs, "vkey") = <<75, 69, 89>>
    /\ Len(read_text(fs, "in")) = 15
    /\ fs["enc"].data = <<75, 88, 82, 75, 71, 73, 75, 88, 66, 75, 65, 76>>

(***************************************************************************)
(* What the claims say of the file Playfair's decrypt_file writes.         *)
(***************************************************************************)
PfFileDecrypted == last.fn = "playfair.decrypt_file" /\ last.err = "none"

\* Every I of the text as the three characters I/J.
WithIJ(text) ==
    LET at(k) == Cardinality({i \in 1..(k - 1) : text[i] = 73})
        n == Len(text) + 2 * at(Len(text) + 1)
    IN  [j \in 1..n |->
            LET k == CHOOSE k \in 1..Len(text) :
                         k + 2 * at(k) <= j /\ j <= k + 2 * at(k + 1)
            IN  IF text[k] # 73 THEN text[k]
                ELSE IF j = k + 2 * at(k) THEN 73
                ELSE IF j = k + 2 * at(k) + 1 THEN 47 ELSE 74]

\* The input of the call is what encrypt_text gives for the file "in".
DecryptedOwnCiphertext ==
    /\ last.inp = "enc" /\ isfile(fs, "in")
    /\ fs["enc"].data = encrypt_text(read_text(fs, "in"), read_board_from_file(fs, "board").val)

\* C24: decrypt_file with a classic 5 x 5 board writes the result of
\* decrypt_text with every I as the three characters I/J, and with an
\* extended board writes that result unchanged; no filler X is removed, so
\* that with a classic board the file written for the ciphertext of a text
\* equals the normalized text only when that holds no I.
C24_DecryptFileOutput ==
    PfFileDecrypted =>
        \E board \in {read_board_from_file(fs, "board").val} :
            \E plain \in {decrypt_text(read_text(fs, last.inp), board).val} :
                /\ fs["dec"].data = IF Classic(board) THEN WithIJ(plain) ELSE plain
                /\ (DecryptedOwnCiphertext /\ Classic(board)) =>
                      \E text \in {Normalized(read_text(fs, "in"), board)} :
                          /\ plain = text
                          /\ (fs["dec"].data = text) <=> (73 \notin ToSet(text))

\* "Hi" encrypted and decrypted with the board of "KEY": HI/J is written.
C24_Witness ==
    /\ PfFileDecrypted /\ DecryptedOwnCiphertext
    /\ read_text(fs, "in") = <<72, 105>>
    /\ fs["dec"].data = <<72, 73, 47, 74>>

\* A filler X written with a classic board, the text holding no I.
C24_FillerKept ==
    /\ PfFileDecrypted /\ DecryptedOwnCiphertext
    /\ Classic(read_board_from_file(fs, "board").val)
    /\ read_text(fs, "in") = <<65, 98, 32, 66>>
    /\ fs["dec"].data = <<65, 66, 66, 88>>

\* An extended board: the result of decrypt_text written as it is.
C24_Extended ==
    /\ PfFileDecrypted /\ ~Classic(read_board_from_file(fs, "board").val)
    /\ Len(fs["dec"].data) >= 2

(***************************************************************************)
(* What the claims say of the digraphs and of the ciphertext.              *)
(***************************************************************************)
TextEncryptedByBoard == last.fn = "playfair.encrypt_text"

\* C25 as stated: for every board built by read_board_from_file and every
\* text the ciphertext of encrypt_text has even length and holds characters
\* of the board only, so that decrypt_text drops nothing of it.
C25_AsStated ==
    TextEncryptedByBoard =>
        /\ Len(last.ret) % 2 = 0
        /\ ToSet(last.ret) \subseteq Cells(PfBoard.val)

\* C25, what holds: the ciphertext has even length and holds characters of
\* the board and the filler X; it holds characters of the board only when
\* the board holds X, as every classic board does; with a board without X a
\* ciphertext with an odd number of X makes decrypt_text drop them and end
\* in a digraph cut short.
C25_CiphertextOnBoard ==
    TextEncryptedByBoard =>
        \E cells \in {Cells(PfBoard.val)} :
            /\ Len(last.ret) % 2 = 0
            /\ ToSet(last.ret) \subseteq cells \cup {88}
            /\ 88 \in cells => ToSet(last.ret) \subseteq cells
            /\ Classic(PfBoard.val) => 88 \in cells
            /\ decrypt_text(last.ret, PfBoard.val).err = "IndexError"
                  <=> Cardinality({i \in 1..Len(last.ret) : last.ret[i] \notin cells}) % 2 = 1

\* "a" encrypted with the board of "ab1!": a and the filler X, which is on
\* no cell, come back as they are.
C25_Witness ==
    /\ TextEncryptedByBoard
    /\ 88 \notin Cells(PfBoard.val)
    /\ read_text(fs, "in") = <<97>>
    /\ last.ret = <<97, 88>>

\* A ciphertext of board characters, with an extended board holding X.
C25_OnBoard ==
    /\ TextEncryptedByBoard /\ ~Classic(PfBoard.val)
    /\ 88 \in Cells(PfBoard.val)
    /\ Len(last.ret) = 4
    /\ ToSet(last.ret) \subseteq Cells(PfBoard.val)

\* The digraphs of the text fix_message returned.
Digraphs == {<<last.ret[2 * k - 1], last.ret[2 * k]>> : k \in 1..(Len(last.ret) \div 2)}

\* C26 as stated: every digraph in the output of fix_message, for every
\* message, holds two different characters.
C26_AsStated ==
    (MessageFixed \/ MessageFixedByDefault) =>
        \A d \in Digraphs : d[1] # d[2]

\* C26, what holds: the only digraph of two equal characters in the output
\* of fix_message is X X, which stands for an X followed by another X or left
\* unpaired at the end; a message that keeps no X gives no such digraph.
C26_OnlyFillerDoubled ==
    (MessageFixed \/ MessageFixedByDefault) =>
        /\ \A d \in Digraphs : d[1] = d[2] => d = <<88, 88>>
        /\ (\A i \in 1..Len(Message) : Message[i] \notin {88, 120})
              => \A d \in Digraphs : d[1] # d[2]

\* The message "X" with a classic board: the digraph X X.
C26_Witness ==
    /\ MessageFixed /\ Classic(PfBoard.val)
    /\ Message = <<88>>
    /\ last.ret = <<88, 88>>

\* "aa" split by the filler.
C26_Split ==
    /\ MessageFixedByDefault
    /\ Message = <<97, 97>>
    /\ last.ret = <<65, 88, 65, 88>>
====
